---- MODULE Spec2Model ----
(***************************************************************************)
(* valueFlow: CSV row parser, per-source aggregator, merge engine and the  *)
(* filter/derivation pass (computeDerived), modelled from the JavaScript   *)
(* sources.                                                                *)
(*                                                                         *)
(* Representation                                                          *)
(*  - a text (JS string) is a sequence of one-character strings;           *)
(*    NBSP and TAB stand for U+00A0 and U+0009                             *)
(*  - a JS "number | null | NaN" value is a tuple: <<n>> is the finite     *)
(*    number n, Null (<<>>) is null, NaN (<<0,0>>) is NaN                  *)
(*  - amounts are integers counted in tenths (one decimal place)           *)
(*  - a JS Map / Set with insertion order is a sequence without            *)
(*    duplicates; a Map is a sequence of <<key, value>> pairs or of        *)
(*    records carrying their key                                           *)
(***************************************************************************)
EXTENDS Integers, Sequences, FiniteSets, TLC

(***************************************************************************)
(* Generic helpers                                                         *)
(***************************************************************************)
Null == <<>>
NaN == <<0, 0>>
Num(n) == <<n>>
IsNum(x) == Len(x) = 1
Val(x) == x[1]

Range(s) == {s[i] : i \in 1..Len(s)}

RECURSIVE FilterSeq(_, _)
FilterSeq(s, keep) ==
  IF s = <<>> THEN <<>>
  ELSE IF Head(s) \in keep THEN <<Head(s)>> \o FilterSeq(Tail(s), keep)
  ELSE FilterSeq(Tail(s), keep)

\* Array.from(new Set(arr)): first occurrences, insertion order
RECURSIVE DedupFrom(_, _)
DedupFrom(s, seen) ==
  IF s = <<>> THEN <<>>
  ELSE IF Head(s) \in seen THEN DedupFrom(Tail(s), seen)
  ELSE <<Head(s)>> \o DedupFrom(Tail(s), seen \cup {Head(s)})

RECURSIVE SumSeq(_)
SumSeq(s) == IF s = <<>> THEN 0 ELSE Head(s) + SumSeq(Tail(s))

Abs(n) == IF n < 0 THEN 0 - n ELSE n
Max2(a, b) == IF a >= b THEN a ELSE b
Min2(a, b) == IF a <= b THEN a ELSE b

(***************************************************************************)
(* Characters                                                              *)
(***************************************************************************)
NBSP == "nbsp"
TAB == "tab"
UMINUS == "uminus"   \* U+2212
ENDASH == "endash"   \* U+2013
WsChars == {" ", NBSP, TAB}
DigitChars == {"0", "1", "2", "3", "4", "5", "6", "7", "8", "9"}
DigitVal(c) ==
  CASE c = "0" -> 0 [] c = "1" -> 1 [] c = "2" -> 2 [] c = "3" -> 3
    [] c = "4" -> 4 [] c = "5" -> 5 [] c = "6" -> 6 [] c = "7" -> 7
    [] c = "8" -> 8 [] c = "9" -> 9
DigitChar(d) ==
  CASE d = 0 -> "0" [] d = 1 -> "1" [] d = 2 -> "2" [] d = 3 -> "3"
    [] d = 4 -> "4" [] d = 5 -> "5" [] d = 6 -> "6" [] d = 7 -> "7"
    [] d = 8 -> "8" [] d = 9 -> "9"

\* String(n) for a non-negative integer n
RECURSIVE ToStr(_)
ToStr(n) == IF n < 10 THEN <<DigitChar(n)>>
            ELSE ToStr(n \div 10) \o <<DigitChar(n % 10)>>

\* value of a sequence of digit characters
RECURSIVE DigitsVal(_)
DigitsVal(s) ==
  IF s = <<>> THEN 0
  ELSE DigitsVal(SubSeq(s, 1, Len(s) - 1)) * 10 + DigitVal(s[Len(s)])

\* number of leading characters of s that lie in cs
RECURSIVE PrefixLen(_, _)
PrefixLen(s, cs) ==
  IF s = <<>> \/ Head(s) \notin cs THEN 0 ELSE 1 + PrefixLen(Tail(s), cs)

AllIn(s, lo, hi, cs) == \A i \in lo..hi : i <= Len(s) /\ s[i] \in cs

(***************************************************************************)
(* String.prototype.trim                                                   *)
(***************************************************************************)
RECURSIVE TrimLeft(_)
TrimLeft(s) ==
  IF s # <<>> /\ Head(s) \in WsChars THEN TrimLeft(Tail(s)) ELSE s

RECURSIVE TrimRight(_)
TrimRight(s) ==
  IF s # <<>> /\ s[Len(s)] \in WsChars
  THEN TrimRight(SubSeq(s, 1, Len(s) - 1)) ELSE s

Trim(s) == TrimRight(TrimLeft(s))

\* parse.js cleanText: String(s ?? "") without a leading BOM, trimmed
\* (the byte-order mark is not part of the modelled alphabet)
cleanText(s) == Trim(s)

\* s.replace(/\s+/g, " ") after NBSP -> " "
RECURSIVE CollapseWs(_)
CollapseWs(s) ==
  IF s = <<>> THEN <<>>
  ELSE IF Head(s) \in WsChars
       THEN <<" ">> \o CollapseWs(SubSeq(s, 1 + PrefixLen(s, WsChars), Len(s)))
       ELSE <<Head(s)>> \o CollapseWs(Tail(s))


\* keys.js cleanKey
cleanKey(s) == Trim(CollapseWs(s))

\* parse.js dimOrQuestion
dimOrQuestion(s) == IF cleanKey(s) # <<>> THEN cleanKey(s) ELSE <<"?">>

LowerChar(c) ==
  CASE c = "A" -> "a" [] c = "B" -> "b" [] c = "C" -> "c" [] c = "D" -> "d"
    [] c = "E" -> "e" [] c = "G" -> "g" [] c = "I" -> "i" [] c = "L" -> "l"
    [] c = "N" -> "n" [] c = "P" -> "p" [] c = "S" -> "s" [] c = "T" -> "t"
    [] c = "U" -> "u" [] c = "X" -> "x" [] OTHER -> c
toLowerCase(s) == [i \in 1..Len(s) |-> LowerChar(s[i])]

(***************************************************************************)
(* Numbers                                                                 *)
(***************************************************************************)
MinValidYear == 1900
MaxValidYear == 2100

\* parse.js isValidYear (also api.js mergeModels.isValidYear)
isValidYear(y) == IsNum(y) /\ Val(y) >= MinValidYear /\ Val(y) <= MaxValidYear

\* Number.parseInt(t, 10) on a trimmed text: optional sign, leading digits
parseInt10(t) ==
  LET signed == t # <<>> /\ Head(t) \in {"-", "+"}
      body == IF signed THEN Tail(t) ELSE t
      n == PrefixLen(body, DigitChars)
      v == DigitsVal(SubSeq(body, 1, n))
  IN IF n = 0 THEN NaN
     ELSE IF signed /\ Head(t) = "-" THEN Num(0 - v) ELSE Num(v)

\* Number.parseFloat on a trimmed text, in tenths: optional sign, digits,
\* optional "." and fraction digits (the first fraction digit is kept);
\* parsing stops at the first character that fits no more
parseFloatTenths(t) ==
  LET signed == t # <<>> /\ Head(t) \in {"-", "+"}
      body == IF signed THEN Tail(t) ELSE t
      n == PrefixLen(body, DigitChars)
      rest == SubSeq(body, n + 1, Len(body))
      hasDot == rest # <<>> /\ Head(rest) = "."
      f == IF hasDot THEN PrefixLen(Tail(rest), DigitChars) ELSE 0
      ip == DigitsVal(SubSeq(body, 1, n))
      fp == IF f > 0 THEN DigitVal(rest[2]) ELSE 0
      v == ip * 10 + fp
  IN IF n = 0 /\ f = 0 THEN NaN
     ELSE IF signed /\ Head(t) = "-" THEN Num(0 - v) ELSE Num(v)

\* parse.js parseNumberStrict
parseNumberStrict(s) ==
  LET t == cleanText(s)
      normalized == [i \in 1..Len(t) |->
                       IF t[i] \in {UMINUS, ENDASH} THEN "-" ELSE t[i]]
  IN IF t = <<>> THEN NaN ELSE parseFloatTenths(normalized)

(***************************************************************************)
(* Dates                                                                   *)
(***************************************************************************)
\* /^(\d{4})[-/](\d{1,2})[-/](\d{1,2})(?:[ T].*)?$/
MatchYMD(t) ==
  /\ Len(t) >= 8
  /\ AllIn(t, 1, 4, DigitChars)
  /\ t[5] \in {"-", "/"}
  /\ \E a \in 1..2, b \in 1..2 :
       /\ Len(t) >= 6 + a + b
       /\ AllIn(t, 6, 5 + a, DigitChars)
       /\ t[6 + a] \in {"-", "/"}
       /\ AllIn(t, 7 + a, 6 + a + b, DigitChars)
       /\ (Len(t) = 6 + a + b \/ t[7 + a + b] \in {" ", "T"})

\* /^(\d{1,2})[./](\d{1,2})[./](\d{4})(?:\s.*)?$/ ; the position of the year
DMYYearPos(t) ==
  {p \in 1..Len(t) :
     \E a \in 1..2, b \in 1..2 :
       /\ p = a + b + 3
       /\ Len(t) >= p + 3
       /\ AllIn(t, 1, a, DigitChars)
       /\ t[a + 1] \in {".", "/"}
       /\ AllIn(t, a + 2, a + 1 + b, DigitChars)
       /\ t[a + b + 2] \in {".", "/"}
       /\ AllIn(t, p, p + 3, DigitChars)
       /\ (Len(t) = p + 3 \/ t[p + 4] \in WsChars)}

\* parse.js yearFromDateStr
yearFromDateStr(s) ==
  LET t == cleanText(s)
  IN IF t = <<>> THEN Null
     ELSE IF MatchYMD(t)
          THEN (LET y == Num(DigitsVal(SubSeq(t, 1, 4)))
                IN IF isValidYear(y) THEN y ELSE Null)
     ELSE IF DMYYearPos(t) # {}
          THEN (LET p == CHOOSE q \in DMYYearPos(t) : TRUE
                    y == Num(DigitsVal(SubSeq(t, p, p + 3)))
                IN IF isValidYear(y) THEN y ELSE Null)
     ELSE Null

\* a ?? b ?? NaN
Coalesce3(a, b) == IF a # Null THEN a ELSE IF b # Null THEN b ELSE NaN

\* faulty variant of resolveYear: the date range overrides the Jahr cell
resolveYearDatesFirst(jahrRaw, bisRaw, vonRaw) ==
  LET d == Coalesce3(yearFromDateStr(bisRaw), yearFromDateStr(vonRaw))
  IN IF IsNum(d) THEN d
     ELSE IF isValidYear(parseInt10(cleanText(jahrRaw)))
          THEN parseInt10(cleanText(jahrRaw)) ELSE NaN

\* parse.js parseRows.resolveYear
resolveYear(jahrRaw, bisRaw, vonRaw) ==
  LET jahrText == cleanText(jahrRaw)
      hasJahrCell == Len(jahrText) > 0
      y == parseInt10(jahrText)
  IN IF hasJahrCell /\ isValidYear(y) THEN y
     ELSE Coalesce3(yearFromDateStr(bisRaw), yearFromDateStr(vonRaw))

(***************************************************************************)
(* String order: String.prototype.localeCompare(.., "de") on the modelled  *)
(* alphabet: primary comparison ignores letter case, whitespace and        *)
(* punctuation sort before digits before letters; on a primary tie the     *)
(* first case difference decides, lower case first                         *)
(***************************************************************************)
PrimRank(c) ==
  CASE c = " " -> 1 [] c = NBSP -> 2 [] c = TAB -> 0
    [] c = "?" -> 3 [] c = "|" -> 4 [] c = "." -> 5 [] c = "-" -> 6
    [] c \in DigitChars -> 10 + DigitVal(c)
    [] c \in {"a", "A"} -> 30 [] c \in {"b", "B"} -> 31
    [] c \in {"c", "C"} -> 32 [] c \in {"g", "G"} -> 36
    [] c \in {"i", "I"} -> 38 [] c \in {"s", "S"} -> 48
    [] c \in {"t", "T"} -> 49 [] c \in {"x", "X"} -> 53
    [] OTHER -> 60
IsUpper(c) == c \in {"A", "B", "C", "G", "I", "S", "T", "X"}

RECURSIVE PrimCmp(_, _)
PrimCmp(a, b) ==
  IF a = <<>> /\ b = <<>> THEN 0
  ELSE IF a = <<>> THEN 0 - 1
  ELSE IF b = <<>> THEN 1
  ELSE IF PrimRank(Head(a)) < PrimRank(Head(b)) THEN 0 - 1
  ELSE IF PrimRank(Head(a)) > PrimRank(Head(b)) THEN 1
  ELSE PrimCmp(Tail(a), Tail(b))

RECURSIVE CaseCmp(_, _)
CaseCmp(a, b) ==
  IF a = <<>> \/ b = <<>> THEN 0
  ELSE IF Head(a) = Head(b) THEN CaseCmp(Tail(a), Tail(b))
  ELSE IF IsUpper(Head(b)) /\ ~IsUpper(Head(a)) THEN 0 - 1
  ELSE IF IsUpper(Head(a)) /\ ~IsUpper(Head(b)) THEN 1
  ELSE CaseCmp(Tail(a), Tail(b))

localeCompare(a, b) == IF PrimCmp(a, b) # 0 THEN PrimCmp(a, b) ELSE CaseCmp(a, b)

\* arr.sort(localeCompare) of distinct texts: ascending sequence of a set
RECURSIVE SortTexts(_)
SortTexts(S) ==
  IF S = {} THEN <<>>
  ELSE LET m == CHOOSE x \in S : \A y \in S : localeCompare(x, y) <= 0
       IN <<m>> \o SortTexts(S \ {m})

\* arr.sort((a, b) => a - b) of distinct integers
RECURSIVE SortInts(_)
SortInts(S) ==
  IF S = {} THEN <<>>
  ELSE LET m == CHOOSE x \in S : \A y \in S : x <= y
       IN <<m>> \o SortInts(S \ {m})

\* parse.js uniqueSorted
uniqueSorted(arr) == SortTexts({x \in Range(arr) : x # <<>>})

(***************************************************************************)
(* Row parser (parse.js parseRows).  A data line is given by its cells     *)
(* after the positional split: a record with one text per column; a        *)
(* column that the header lacks reads as the empty text.                   *)
(***************************************************************************)
TxtPlanned == <<"p", "l", "a", "n", "n", "e", "d">>
TxtGeplant == <<"g", "e", "p", "l", "a", "n", "t">>
TxtActual == <<"a", "c", "t", "u", "a", "l">>
TxtIst == <<"i", "s", "t">>

\* faulty variant of the undated test: a row without a resolvable year is undated
rowIsUndatedByYear(jahrRaw, von, bis) ==
  ~IsNum(resolveYear(jahrRaw, bis, von))

\* parse.js parseRows: hasAnyDate / isUndated
rowIsUndated(jahrRaw, von, bis) ==
  ~(jahrRaw # <<>> \/ von # <<>> \/ bis # <<>>)

\* one iteration of the loop of parseRows, for a line whose Betrag parses
parseRow(cells) ==
  LET kategorieRaw == cleanText(cells.Kategorie)
      buchungstypRaw == cleanText(cells.Buchungstyp)
      von == cleanText(cells.Von)
      bis == cleanText(cells.Bis)
      jahrRaw == cleanText(cells.Jahr)
      betragNum == parseNumberStrict(cleanText(cells.Betrag))
      mengeNum == parseNumberStrict(cleanText(cells.Menge))
      isUndated == rowIsUndated(jahrRaw, von, bis)
      year == IF isUndated THEN NaN ELSE resolveYear(jahrRaw, bis, von)
      st == toLowerCase(cleanKey(cleanText(cells.Status)))
      status == IF st = TxtPlanned \/ st = TxtGeplant THEN "planned"
                ELSE IF st = TxtActual \/ st = TxtIst THEN "actual"
                ELSE IF isUndated THEN "planned" ELSE "actual"
  IN [year |-> year,
      cat |-> dimOrQuestion(kategorieRaw),
      typ |-> dimOrQuestion(buchungstypRaw),
      kosten |-> Val(betragNum),
      menge |-> mengeNum,
      einheit |-> cleanText(cells.Einheit),
      status |-> status,
      isUndated |-> isUndated,
      raw |-> cells]

\* faulty variant of the row loop: a line whose amount does not parse is
\* kept as a row with the amount 0
RECURSIVE parseRowsKeepAll(_)
parseRowsKeepAll(lines) ==
  IF lines = <<>> THEN <<>>
  ELSE <<parseRow(IF IsNum(parseNumberStrict(cleanText(Head(lines).Betrag)))
                  THEN Head(lines) ELSE [Head(lines) EXCEPT !.Betrag = <<"0">>])>>
       \o parseRowsKeepAll(Tail(lines))

\* parse.js parseRows: lines whose Betrag is not finite are skipped
RECURSIVE parseRows(_)
parseRows(lines) ==
  IF lines = <<>> THEN <<>>
  ELSE IF IsNum(parseNumberStrict(cleanText(Head(lines).Betrag)))
       THEN <<parseRow(Head(lines))>> \o parseRows(Tail(lines))
       ELSE parseRows(Tail(lines))

(***************************************************************************)
(* Per-source aggregator (parse.js buildAggregates, buildModel)            *)
(***************************************************************************)
UNDATED_LABEL == <<"U", "n", "d", "a", "t", "i", "e", "r", "t">>
SEP == <<"|", "|">>
DetailLimit == 50

\* `${a}||${b}`
Key2(a, b) == a \o SEP \o b
\* `${yearKey}||${cat}||${type}`
Key3(yearKey, cat, type) == yearKey \o SEP \o cat \o SEP \o type

\* buildAggregates.isChartable
isChartable(r) == isValidYear(r.year) \/ r.isUndated

\* faulty variant of isPlanned: no row counts as planned
isPlannedNever(r) == FALSE

\* buildAggregates.isPlanned
isPlanned(r) == r.status = "planned"

\* rows.filter(isChartable)
RECURSIVE SelectChartable(_)
SelectChartable(rows) ==
  IF rows = <<>> THEN <<>>
  ELSE IF isChartable(Head(rows))
       THEN <<Head(rows)>> \o SelectChartable(Tail(rows))
       ELSE SelectChartable(Tail(rows))

\* index of the entry with key k in a Map given as a sequence of records
\* with a field key; 0 when absent
MapIndex(m, k) ==
  IF \E i \in 1..Len(m) : m[i].key = k
  THEN CHOOSE i \in 1..Len(m) : m[i].key = k
  ELSE 0

\* Set.add on an insertion-ordered set
SetAdd(s, x) == IF x \in Range(s) THEN s ELSE Append(s, x)

\* buildAggregates: the yearKey / year of an actual row
rowUndated(r) == r.isUndated \/ ~isValidYear(r.year)
rowYearKey(r) == IF rowUndated(r) THEN UNDATED_LABEL ELSE ToStr(Val(r.year))

\* buildAggregates: const key = `${yearKey}||${cat}||${type}`
barKey(yearKey, cat, type) == Key3(yearKey, cat, type)

\* buildAggregates, lines 339-372: the loop over chartRows; acc is the Map
\* key -> bar, ps the three planned-relation sets
RECURSIVE foldChartRows(_, _, _)
foldChartRows(rows, sid, st) ==
  IF rows = <<>> THEN st
  ELSE
    LET r == Head(rows)
        cat == cleanKey(r.cat)
        type == cleanKey(r.typ)
    IN IF cat = <<>> \/ type = <<>> THEN foldChartRows(Tail(rows), sid, st)
       ELSE IF isPlanned(r)
       THEN foldChartRows(Tail(rows), sid,
              [st EXCEPT
                 !.plannedSourceCat =
                    IF sid # <<>> THEN SetAdd(@, Key2(sid, cat)) ELSE @,
                 !.plannedSourceType =
                    IF sid # <<>> THEN SetAdd(@, Key2(sid, type)) ELSE @,
                 !.plannedTypeCat = SetAdd(@, Key2(type, cat))])
       ELSE
         LET undated == rowUndated(r)
             yearKey == rowYearKey(r)
             key == barKey(yearKey, cat, type)
             i == MapIndex(st.acc, key)
             fresh == [key |-> key, yearKey |-> yearKey,
                       year |-> IF undated THEN Null ELSE r.year,
                       cat |-> cat, type |-> type, kosten |-> 0, menge |-> 0]
             acc0 == IF i = 0 THEN Append(st.acc, fresh) ELSE st.acc
             j == IF i = 0 THEN Len(acc0) ELSE i
             acc1 == [acc0 EXCEPT
                        ![j].kosten = @ + r.kosten,
                        ![j].menge = IF IsNum(r.menge) THEN @ + Val(r.menge) ELSE @]
         IN foldChartRows(Tail(rows), sid, [st EXCEPT !.acc = acc1])

\* a bar as the model exposes it (the Map key is not part of it)
BarOf(a) == [yearKey |-> a.yearKey, year |-> a.year, cat |-> a.cat,
             type |-> a.type, kosten |-> a.kosten, menge |-> a.menge]

\* buildAggregates, lines 321-328: units per category, first wins
RECURSIVE foldUnits(_, _)
foldUnits(rows, units) ==
  IF rows = <<>> THEN units
  ELSE LET r == Head(rows)
           cat == cleanKey(r.cat)
       IN IF cat # <<>> /\ MapIndex(units, cat) = 0 /\ r.einheit # <<>>
          THEN foldUnits(Tail(rows), Append(units, [key |-> cat, unit |-> r.einheit]))
          ELSE foldUnits(Tail(rows), units)

\* buildAggregates, line 319
hasUndatedOfRows(chartRows) ==
  \E i \in 1..Len(chartRows) : rowUndated(chartRows[i])

\* buildAggregates, lines 374-387: the returned object; chartRows are the
\* chartable rows, st the result of the loop over them
aggregatesOf(chartRows, st) ==
  [years |-> SortInts({Val(chartRows[i].year) :
                         i \in {k \in 1..Len(chartRows) : isValidYear(chartRows[k].year)}}),
   cats |-> uniqueSorted([i \in 1..Len(chartRows) |-> cleanKey(chartRows[i].cat)]),
   types |-> uniqueSorted([i \in 1..Len(chartRows) |-> cleanKey(chartRows[i].typ)]),
   bars |-> [i \in 1..Len(st.acc) |-> BarOf(st.acc[i])],
   unitByCat |-> foldUnits(chartRows, <<>>),
   hasUndated |-> hasUndatedOfRows(chartRows),
   undatedLabel |-> UNDATED_LABEL,
   plannedSourceCat |-> st.plannedSourceCat,
   plannedSourceType |-> st.plannedSourceType,
   plannedTypeCat |-> st.plannedTypeCat]

\* buildAggregates, from the chartable rows on
aggregateChartRows(chartRows, sid) ==
  aggregatesOf(chartRows,
               foldChartRows(chartRows, sid,
                 [acc |-> <<>>, plannedSourceCat |-> <<>>,
                  plannedSourceType |-> <<>>, plannedTypeCat |-> <<>>]))

\* parse.js buildAggregates(rows, sourceId)
buildAggregates(rows, sourceId) ==
  aggregateChartRows(SelectChartable(rows), Trim(sourceId))

\* buildModel, lines 463-510: detailsByKey, capped per key
RECURSIVE foldDetails(_, _, _)
foldDetails(rows, sid, det) ==
  IF rows = <<>> THEN det
  ELSE
    LET r == Head(rows)
        catKey == cleanKey(r.cat)
        typKey == cleanKey(r.typ)
        key == Key3(rowYearKey(r), catKey, typKey)
        rec == [Quelle |-> sid, cat |-> catKey, typ |-> typKey, raw |-> r.raw,
                status |-> r.status, isUndated |-> r.isUndated]
        i == MapIndex(det, key)
        det0 == IF i = 0 THEN Append(det, [key |-> key, recs |-> <<>>]) ELSE det
        j == IF i = 0 THEN Len(det0) ELSE i
    IN IF catKey = <<>> \/ typKey = <<>> THEN foldDetails(Tail(rows), sid, det)
       ELSE foldDetails(Tail(rows), sid,
              IF Len(det0[j].recs) < DetailLimit
              THEN [det0 EXCEPT ![j].recs = Append(@, rec)] ELSE det0)

\* buildModel, lines 512-534: the returned model
modelOfAggregates(allRows, sid, agg) ==
  [error |-> FALSE,
   cats |-> uniqueSorted([i \in 1..Len(allRows) |-> cleanKey(allRows[i].cat)]),
   types |-> uniqueSorted([i \in 1..Len(allRows) |-> cleanKey(allRows[i].typ)]),
   years |-> agg.years,
   bars |-> agg.bars,
   unitByCat |-> agg.unitByCat,
   plannedSourceCat |-> agg.plannedSourceCat,
   plannedSourceType |-> agg.plannedSourceType,
   plannedTypeCat |-> agg.plannedTypeCat,
   detailsByKey |-> foldDetails(allRows, sid, <<>>),
   hasUndated |-> agg.hasUndated,
   undatedLabel |-> agg.undatedLabel]

\* buildModel, from the parsed rows on
modelOfRows(lines, sid, allRows) ==
  IF sid = <<>> \/ lines = <<>> \/ allRows = <<>> THEN [error |-> TRUE]
  ELSE modelOfAggregates(allRows, sid, buildAggregates(allRows, sid))

\* parse.js buildModel(csvText, delimiter, {sourceId}) for a text whose header
\* has the required columns; "error" stands for the thrown Error
\* (no data line, or no line with a finite Betrag)
buildModel(lines, sourceId) ==
  modelOfRows(lines, cleanText(sourceId), parseRows(lines))

(***************************************************************************)
(* Merge engine (api.js mergeModels)                                       *)
(***************************************************************************)
DEFAULT_UNDATED == <<"U", "n", "d", "a", "t", "i", "e", "r", "t">>

\* mergeModels.normKey
normKey(v) == Trim(v)

\* Number(text) for a text of the modelled alphabet: all digits, else NaN
NumberOfText(t) ==
  IF t = <<>> THEN Num(0)
  ELSE IF \A i \in 1..Len(t) : t[i] \in DigitChars THEN Num(DigitsVal(t))
  ELSE NaN

\* mergeModels.toValidYearOrNull on a number | null (Number(null) is 0)
toValidYearOrNull(v) == IF isValidYear(v) THEN v ELSE Null

\* mergeModels, pass 1: the first non-default undated label wins
RECURSIVE undatedLabelOf(_)
undatedLabelOf(list) ==
  IF list = <<>> THEN DEFAULT_UNDATED
  ELSE LET ul == IF normKey(Head(list).undatedLabel) # <<>>
                 THEN normKey(Head(list).undatedLabel) ELSE DEFAULT_UNDATED
       IN IF ul # DEFAULT_UNDATED THEN ul ELSE undatedLabelOf(Tail(list))

\* faulty variant of the year key of a merged bar: a bar without a valid
\* year gets no year key, so that the merge leaves it out
resolveBarYearKeyDatedOnly(b, undatedLabelFinal) ==
  [yearKey |-> IF toValidYearOrNull(b.year) = Null THEN <<>> ELSE normKey(b.yearKey),
   year |-> toValidYearOrNull(b.year)]

\* mergeModels.resolveBarYearKeyAndYear (a bar carries no undatedLabel field)
resolveBarYearKeyAndYear(b, undatedLabelFinal) ==
  LET yearKey0 == normKey(b.yearKey)
      year0 == toValidYearOrNull(b.year)
      year == IF year0 = Null /\ yearKey0 # <<>>
                 /\ toValidYearOrNull(NumberOfText(yearKey0)) # Null
              THEN toValidYearOrNull(NumberOfText(yearKey0)) ELSE year0
      yearKey1 == IF yearKey0 = <<>>
                  THEN (IF year # Null THEN ToStr(Val(year)) ELSE undatedLabelFinal)
                  ELSE IF year = Null /\ yearKey0 = DEFAULT_UNDATED
                       THEN undatedLabelFinal ELSE yearKey0
  IN [yearKey |-> IF year = Null THEN undatedLabelFinal ELSE yearKey1,
      year |-> year]

\* mergeModels.addBar: acc.kosten += kosten, acc.menge += menge
addAmount(old, delta) == old + delta

\* mergeModels.addBar
addBar(st, b, undatedLabelFinal) ==
  LET cat == normKey(b.cat)
      type == normKey(b.type)
      yk == resolveBarYearKeyAndYear(b, undatedLabelFinal)
      k == Key3(yk.yearKey, cat, type)
      i == MapIndex(st.barsAcc, k)
      fresh == [key |-> k, yearKey |-> yk.yearKey, year |-> yk.year,
                type |-> type, cat |-> cat, kosten |-> 0, menge |-> 0]
      acc0 == IF i = 0 THEN Append(st.barsAcc, fresh)
              ELSE IF st.barsAcc[i].year = Null /\ yk.year # Null
                   THEN [st.barsAcc EXCEPT ![i].year = yk.year]
                   ELSE st.barsAcc
      j == IF i = 0 THEN Len(acc0) ELSE i
  IN IF cat = <<>> \/ type = <<>> \/ yk.yearKey = <<>> THEN st
     ELSE [st EXCEPT
             !.yearsSet = IF yk.year # Null THEN @ \cup {Val(yk.year)} ELSE @,
             !.barsAcc = [acc0 EXCEPT
                            ![j].kosten = addAmount(@, b.kosten),
                            ![j].menge = addAmount(@, b.menge)]]

RECURSIVE addBars(_, _, _)
addBars(st, bars, ul) ==
  IF bars = <<>> THEN st ELSE addBars(addBar(st, Head(bars), ul), Tail(bars), ul)

\* mergeModels.addUniverse over an array
RECURSIVE addUniverseAll(_, _)
addUniverseAll(keys, arr) ==
  IF arr = <<>> THEN keys
  ELSE addUniverseAll(
         IF normKey(Head(arr)) = <<>> THEN keys ELSE SetAdd(keys, normKey(Head(arr))),
         Tail(arr))

\* mergeModels.addUnit over the entries of unitByCat
RECURSIVE addUnits(_, _)
addUnits(units, entries) ==
  IF entries = <<>> THEN units
  ELSE LET c == normKey(Head(entries).key)
           u == Trim(Head(entries).unit)
       IN addUnits(IF c # <<>> /\ u # <<>> /\ MapIndex(units, c) = 0
                   THEN Append(units, [key |-> c, unit |-> u]) ELSE units,
                   Tail(entries))

\* mergeModels.addStringArrayDedup
RECURSIVE addStringArrayDedup(_, _)
addStringArrayDedup(set, arr) ==
  IF arr = <<>> THEN set
  ELSE addStringArrayDedup(
         IF normKey(Head(arr)) = <<>> THEN set ELSE SetAdd(set, normKey(Head(arr))),
         Tail(arr))

\* mergeModels.addDetails
RECURSIVE addDetails(_, _)
addDetails(det, src) ==
  IF src = <<>> THEN det
  ELSE LET e == Head(src)
           i == MapIndex(det, e.key)
       IN addDetails(
            IF e.recs = <<>> THEN det
            ELSE IF i = 0 THEN Append(det, e)
            ELSE [det EXCEPT ![i].recs = @ \o e.recs],
            Tail(src))

\* mergeModels, lines 313-342: the loop over the models
RECURSIVE mergeLoop(_, _, _)
mergeLoop(st, list, ul) ==
  IF list = <<>> THEN st
  ELSE
    LET m == Head(list)
        s1 == [st EXCEPT
                 !.yearsSet = @ \cup {y \in Range(m.years) : isValidYear(Num(y))},
                 !.catsSet = addUniverseAll(@, m.cats),
                 !.typesSet = addUniverseAll(@, m.types),
                 !.unitByCat = addUnits(@, m.unitByCat)]
        s2 == addBars(s1, m.bars, ul)
        s3 == [s2 EXCEPT
                 !.plannedSourceCat = addStringArrayDedup(@, m.plannedSourceCat),
                 !.plannedSourceType = addStringArrayDedup(@, m.plannedSourceType),
                 !.plannedTypeCat = addStringArrayDedup(@, m.plannedTypeCat),
                 !.detailsByKey = addDetails(@, m.detailsByKey)]
    IN mergeLoop(s3, Tail(list), ul)

\* mergeModels, line 360
mergedHasUndated(bars, ul) ==
  \E i \in 1..Len(bars) : bars[i].year = Null \/ bars[i].yearKey = ul

\* mergeModels, lines 344-377: the merged model built from the accumulators
mergedOf(st, ul) ==
  [error |-> FALSE,
   years |-> SortInts(st.yearsSet),
   cats |-> st.catsSet,
   types |-> SortTexts(Range(st.typesSet)),
   bars |-> [i \in 1..Len(st.barsAcc) |-> BarOf(st.barsAcc[i])],
   unitByCat |-> st.unitByCat,
   detailsByKey |-> st.detailsByKey,
   plannedSourceCat |-> st.plannedSourceCat,
   plannedSourceType |-> st.plannedSourceType,
   plannedTypeCat |-> st.plannedTypeCat,
   hasUndated |-> mergedHasUndated([i \in 1..Len(st.barsAcc) |-> BarOf(st.barsAcc[i])], ul),
   undatedLabel |-> ul]

\* mergeModels, pass 2, once the undated label is fixed
mergeWithLabel(list, ul) ==
  mergedOf(mergeLoop([yearsSet |-> {}, catsSet |-> <<>>, typesSet |-> <<>>,
                      unitByCat |-> <<>>, barsAcc |-> <<>>, detailsByKey |-> <<>>,
                      plannedSourceCat |-> <<>>, plannedSourceType |-> <<>>,
                      plannedTypeCat |-> <<>>], list, ul), ul)

\* api.js mergeModels(models)
mergeModels(list) == mergeWithLabel(list, undatedLabelOf(list))

(***************************************************************************)
(* Filter state (ctx.state).  enabledSourceIds is always a Set in this     *)
(* program; enabledTypes is null at boot and a Set after the first user    *)
(* action on it: [isSet, elems].  The insertion order of these Sets is     *)
(* not modelled.                                                           *)
(***************************************************************************)
NullSet == [isSet |-> FALSE, elems |-> {}]
SetOf(S) == [isSet |-> TRUE, elems |-> S]

(***************************************************************************)
(* view-derivations.js                                                     *)
(***************************************************************************)
\* getYearDomain: Null when the model has no year
getYearDomain(data) ==
  IF data.years = <<>> THEN Null
  ELSE <<CHOOSE y \in Range(data.years) : \A z \in Range(data.years) : y <= z,
         CHOOSE y \in Range(data.years) : \A z \in Range(data.years) : y >= z>>

Clamp(lo, hi, x) == Max2(lo, Min2(hi, x))

\* getVisibleYearRange(data, state): <<yf, yt>> or Null
getVisibleYearRange(data, yearFrom, yearTo) ==
  LET dom == getYearDomain(data)
      from == IF IsNum(yearFrom) THEN Val(yearFrom) ELSE dom[1]
      to == IF IsNum(yearTo) THEN Val(yearTo) ELSE dom[2]
  IN IF dom = Null THEN Null
     ELSE <<Clamp(dom[1], dom[2], Min2(from, to)),
            Clamp(dom[1], dom[2], Max2(from, to))>>

\* Number(x) for x a number or null
NumberOf(x) == IF x = Null THEN Num(0) ELSE x

\* isTypeAllowed(state, type)
isTypeAllowed(enabledTypes, type) ==
  IF ~enabledTypes.isSet \/ enabledTypes.elems = {} THEN TRUE
  ELSE Trim(type) \in enabledTypes.elems

\* the bars loop shared by makeVisibleModel and getVisibleCatsForRange
barVisible(b, r, enabledTypes) ==
  LET y == NumberOf(b.year)
  IN /\ IsNum(y) /\ Val(y) >= r[1] /\ Val(y) <= r[2]
     /\ isTypeAllowed(enabledTypes, b.type)

RECURSIVE SelectVisible(_, _, _)
SelectVisible(bars, r, enabledTypes) ==
  IF bars = <<>> THEN <<>>
  ELSE IF barVisible(Head(bars), r, enabledTypes)
       THEN <<Head(bars)>> \o SelectVisible(Tail(bars), r, enabledTypes)
       ELSE SelectVisible(Tail(bars), r, enabledTypes)

\* getVisibleCatsForRange(data, state)
getVisibleCatsForRange(data, yearFrom, yearTo, enabledTypes) ==
  LET fallback == FilterSeq([i \in 1..Len(data.cats) |-> cleanKey(data.cats[i])],
                            Range([i \in 1..Len(data.cats) |-> cleanKey(data.cats[i])])
                              \ {<<>>})
      r == getVisibleYearRange(data, yearFrom, yearTo)
      vis == SelectVisible(data.bars, r, enabledTypes)
      out == DedupFrom(FilterSeq([i \in 1..Len(vis) |-> cleanKey(vis[i].cat)],
                                 {cleanKey(vis[i].cat) : i \in 1..Len(vis)} \ {<<>>}), {})
  IN IF data.bars = <<>> \/ r = Null THEN fallback
     ELSE IF out # <<>> THEN out ELSE fallback

\* makeVisibleModel(data, state); state.enabledCats is not read by the code
makeVisibleModel(data, yearFrom, yearTo, enabledTypes) ==
  LET r == getVisibleYearRange(data, yearFrom, yearTo)
      vis == SelectVisible(data.bars, r, enabledTypes)
  IN IF data.bars = <<>> THEN [data EXCEPT !.years = <<>>]
     ELSE IF r = Null THEN [data EXCEPT !.bars = <<>>, !.years = <<>>]
     ELSE [data EXCEPT !.bars = vis,
                       !.years = SortInts({Val(NumberOf(vis[i].year)) : i \in 1..Len(vis)})]

(***************************************************************************)
(* aggregates.js                                                           *)
(***************************************************************************)
SEP2 == <<":", ":">>

\* aggregates.js normalizeDim
normalizeDim(v) ==
  LET t == Trim([i \in 1..Len(v) |-> IF v[i] = NBSP THEN " " ELSE v[i]])
  IN IF t = <<>> THEN <<"?">> ELSE t

\* aggregates.js addToMap on a Map given as a sequence of [key, val]
addToMap(map, key, delta) ==
  LET i == MapIndex(map, key)
  IN IF i = 0 THEN Append(map, [key |-> key, val |-> delta])
     ELSE [map EXCEPT ![i].val = @ + delta]

\* value of a key in such a Map, 0 when absent
MapGet(map, key) ==
  IF MapIndex(map, key) = 0 THEN 0 ELSE map[MapIndex(map, key)].val
MapKeys(map) == {map[i].key : i \in 1..Len(map)}

\* aggregate(), lines 121-125: the two readings of an empty Set
sourcesNone(st) == st.enabledSourceIds = {}
typesNone(st) == st.enabledTypes.isSet /\ st.enabledTypes.elems = {}
typesAll(st) == ~st.enabledTypes.isSet

\* aggregate(), lines 148-170: does the row pass year x source x type
rowPasses(row, st) ==
  LET year == Val(NumberOf(row.year))
      type == cleanKey(row.type)
  IN /\ ~(IsNum(st.yearFrom) /\ year < Val(st.yearFrom))
     /\ ~(IsNum(st.yearTo) /\ year > Val(st.yearTo))
     /\ row.sourceId # <<>>
     /\ ~sourcesNone(st)
     /\ row.sourceId \in st.enabledSourceIds
     /\ type # <<>>
     /\ ~typesNone(st)
     /\ (typesAll(st) \/ type \in st.enabledTypes.elems)

\* aggregate(), lines 147-207: the loop over data.rows
RECURSIVE aggregateLoop(_, _, _)
aggregateLoop(rows, st, a) ==
  IF rows = <<>> THEN a
  ELSE
    LET row == Head(rows)
        year == Val(NumberOf(row.year))
        sid == row.sourceId
        type == cleanKey(row.type)
        cat == normalizeDim(row.cat)
        a1 == [a EXCEPT !.visibleSources = SetAdd(@, sid),
                        !.visibleTypes = SetAdd(@, type),
                        !.visibleCats = SetAdd(@, cat)]
        key == ToStr(year) \o SEP2 \o type \o SEP2 \o cat
        i == MapIndex(a1.barMap, key)
        bm0 == IF i = 0
               THEN Append(a1.barMap, [key |-> key, year |-> year, type |-> type,
                                       cat |-> cat, kosten |-> 0, menge |-> 0])
               ELSE a1.barMap
        j == IF i = 0 THEN Len(bm0) ELSE i
        a2 == [a1 EXCEPT !.barMap = [bm0 EXCEPT ![j].kosten = @ + row.kosten,
                                                ![j].menge = @ + row.menge]]
        v == IF st.mode = "menge" THEN row.menge ELSE row.kosten
        a3 == [a2 EXCEPT !.hasAny = TRUE,
                         !.totalsByCat = addToMap(@, cat, v),
                         !.totalsBySource = addToMap(@, sid, v),
                         !.totalsByType = addToMap(@, type, v),
                         !.totalsByYear = addToMap(@, year, v)]
    IN IF ~rowPasses(row, st) THEN aggregateLoop(Tail(rows), st, a)
       ELSE IF cat \in st.disabledCats THEN aggregateLoop(Tail(rows), st, a1)
       ELSE IF v = 0 THEN aggregateLoop(Tail(rows), st, a2)
       ELSE aggregateLoop(Tail(rows), st, a3)

\* the comparator of aggregate(), lines 209-215
aggBarLeq(a, b) ==
  IF a.year # b.year THEN a.year < b.year
  ELSE IF localeCompare(a.type, b.type) # 0 THEN localeCompare(a.type, b.type) < 0
  ELSE localeCompare(a.cat, b.cat) <= 0

\* Array.prototype.sort (stable) with that comparator
RECURSIVE InsertBar(_, _)
InsertBar(sorted, b) ==
  IF sorted = <<>> THEN <<b>>
  ELSE IF aggBarLeq(Head(sorted), b) THEN <<Head(sorted)>> \o InsertBar(Tail(sorted), b)
  ELSE <<b>> \o sorted

RECURSIVE SortBars(_, _)
SortBars(bars, sorted) ==
  IF bars = <<>> THEN sorted ELSE SortBars(Tail(bars), InsertBar(sorted, Head(bars)))

\* aggregate(), lines 209-232: the returned object
aggregateResult(a, st) ==
  [mode |-> IF st.mode = "menge" THEN "menge" ELSE "kosten",
   bars |-> SortBars([i \in 1..Len(a.barMap) |->
                        [year |-> a.barMap[i].year, type |-> a.barMap[i].type,
                         cat |-> a.barMap[i].cat, kosten |-> a.barMap[i].kosten,
                         menge |-> a.barMap[i].menge]], <<>>),
   totalsByCat |-> a.totalsByCat,
   totalsBySource |-> a.totalsBySource,
   totalsByType |-> a.totalsByType,
   totalsByYear |-> a.totalsByYear,
   visibleCats |-> a.visibleCats,
   visibleTypes |-> a.visibleTypes,
   visibleSources |-> a.visibleSources,
   hasAny |-> a.hasAny]

\* aggregates.js aggregate({rows}, state)
aggregate(rows, st) ==
  aggregateResult(
    aggregateLoop(rows, st,
      [visibleSources |-> <<>>, visibleTypes |-> <<>>, visibleCats |-> <<>>,
       totalsByCat |-> <<>>, totalsBySource |-> <<>>, totalsByType |-> <<>>,
       totalsByYear |-> <<>>, barMap |-> <<>>, hasAny |-> FALSE]), st)

(***************************************************************************)
(* graphBuilder.js                                                         *)
(***************************************************************************)
\* position of the first "||" in t, 0 when there is none
FirstSep(t) ==
  IF \E i \in 1..(Len(t) - 1) : t[i] = "|" /\ t[i + 1] = "|"
  THEN CHOOSE i \in 1..(Len(t) - 1) :
         /\ t[i] = "|" /\ t[i + 1] = "|"
         /\ \A j \in 1..(i - 1) : ~(t[j] = "|" /\ t[j + 1] = "|")
  ELSE 0

\* String(k).split("||")
RECURSIVE SplitSep(_)
SplitSep(t) ==
  IF FirstSep(t) = 0 THEN <<t>>
  ELSE <<SubSeq(t, 1, FirstSep(t) - 1)>> \o SplitSep(SubSeq(t, FirstSep(t) + 2, Len(t)))

\* const [a, b] = String(k).split("||"); a missing part reads as the empty text
SplitPair(k) ==
  LET parts == SplitSep(k)
  IN <<parts[1], IF Len(parts) >= 2 THEN parts[2] ELSE <<>>>>

KeyG(a, b) == a \o SEP2 \o b

\* buildLegendGraph, line 97: const w = Math.abs(v)
barWeight(v) == Abs(v)

\* buildLegendGraph, lines 76-102: the bars of one selected source
RECURSIVE graphBars(_, _, _, _)
graphBars(g, sid, bars, p) ==
  IF bars = <<>> THEN g
  ELSE
    LET b == Head(bars)
        c == b.cat
        t == cleanKey(b.type)
        yearNum == Val(NumberOf(b.year))
        isUndated == b.yearKey = p.undatedLabel
        v == IF p.mode = "menge" THEN b.menge ELSE b.kosten
        w == barWeight(v)
        skip == \/ c = <<>> \/ c \notin p.enabledCatSet
                \/ t = <<>> \/ t \notin p.enabledTypes
                \/ (~isUndated /\ IsNum(p.yearFrom) /\ yearNum < Val(p.yearFrom))
                \/ (~isUndated /\ IsNum(p.yearTo) /\ yearNum > Val(p.yearTo))
                \/ v = 0
    IN graphBars(IF skip THEN g
                 ELSE [g EXCEPT !.sourceTypeWeight = addToMap(@, KeyG(sid, t), w),
                                !.typeCatWeight = addToMap(@, KeyG(t, c), w),
                                !.sourceCatWeight = addToMap(@, KeyG(sid, c), w)],
                 sid, Tail(bars), p)

\* buildLegendGraph, lines 71-103
RECURSIVE graphActual(_, _, _)
graphActual(g, sourceEntries, p) ==
  IF sourceEntries = <<>> THEN g
  ELSE LET sid == Trim(Head(sourceEntries).sid)
       IN graphActual(IF sid = <<>> THEN g
                      ELSE graphBars(g, sid, Head(sourceEntries).model.bars, p),
                      Tail(sourceEntries), p)

\* buildLegendGraph, lines 111-137: the three planned loops
RECURSIVE plannedSourceTypeLoop(_, _, _)
plannedSourceTypeLoop(m, keys, p) ==
  IF keys = <<>> THEN m
  ELSE LET sid == SplitPair(Head(keys))[1]
           t == cleanKey(SplitPair(Head(keys))[2])
       IN plannedSourceTypeLoop(
            IF sid = <<>> \/ t = <<>> \/ sid \notin p.enabledSources
               \/ t \notin p.enabledTypes
            THEN m ELSE addToMap(m, KeyG(sid, t), 1), Tail(keys), p)

RECURSIVE plannedSourceCatLoop(_, _, _)
plannedSourceCatLoop(m, keys, p) ==
  IF keys = <<>> THEN m
  ELSE LET sid == SplitPair(Head(keys))[1]
           cat == SplitPair(Head(keys))[2]
       IN plannedSourceCatLoop(
            IF sid = <<>> \/ cat = <<>> \/ sid \notin p.enabledSources
               \/ cat \notin p.legendEnabledCats
            THEN m ELSE addToMap(m, KeyG(sid, cat), 1), Tail(keys), p)

\* faulty variant of the third planned loop: the category is not checked
RECURSIVE plannedTypeCatLoopAnyCat(_, _, _)
plannedTypeCatLoopAnyCat(m, keys, p) ==
  IF keys = <<>> THEN m
  ELSE LET t == cleanKey(SplitPair(Head(keys))[1])
           cat == SplitPair(Head(keys))[2]
       IN plannedTypeCatLoopAnyCat(
            IF t = <<>> \/ cat = <<>> \/ t \notin p.enabledTypes
            THEN m ELSE addToMap(m, KeyG(t, cat), 1), Tail(keys), p)

RECURSIVE plannedTypeCatLoop(_, _, _)
plannedTypeCatLoop(m, keys, p) ==
  IF keys = <<>> THEN m
  ELSE LET t == cleanKey(SplitPair(Head(keys))[1])
           cat == SplitPair(Head(keys))[2]
       IN plannedTypeCatLoop(
            IF t = <<>> \/ cat = <<>> \/ t \notin p.enabledTypes
               \/ cat \notin p.legendEnabledCats
            THEN m ELSE addToMap(m, KeyG(t, cat), 1), Tail(keys), p)

\* buildLegendGraph, lines 42-61 and 139: the graph object; g holds the
\* three weight Maps
graphOf(g, p) ==
  [sources |-> [i \in 1..Len(p.sourceEntries) |-> p.sourceEntries[i].sid],
   types |-> p.enabledTypes,
   sourceTypeWeight |-> g.sourceTypeWeight,
   typeCatWeight |-> g.typeCatWeight,
   sourceCatWeight |-> g.sourceCatWeight,
   sourceTypePlanned |->
     plannedSourceTypeLoop(<<>>, p.mergedSelected.plannedSourceType, p),
   sourceCatPlanned |->
     plannedSourceCatLoop(<<>>, p.mergedSelected.plannedSourceCat, p),
   typeCatPlanned |->
     plannedTypeCatLoop(<<>>, p.mergedSelected.plannedTypeCat, p)]

\* graphBuilder.js buildLegendGraph(params); p carries sourceEntries,
\* enabledSources, enabledTypes, enabledCatSet, legendEnabledCats,
\* mergedSelected, mode, yearFrom, yearTo, undatedLabel
buildLegendGraph(p) ==
  graphOf(graphActual([sourceTypeWeight |-> <<>>, typeCatWeight |-> <<>>,
                       sourceCatWeight |-> <<>>], p.sourceEntries, p), p)

(***************************************************************************)
(* renderer.js computeDerived.  raw is ctx.raw.bySource as the sequence of *)
(* its entries [sid, model] in insertion order; st is ctx.state.  The      *)
(* result carries the filter state after the call, the published derived   *)
(* artefacts and whether the call raised.  An absent artefact is Null.     *)
(* Colours (colorByCat) are not modelled.                                  *)
(***************************************************************************)
\* renderer.js dedupeStable
dedupeStable(arr) == DedupFrom(arr, {})

\* computeDerived.mergeIfNeeded
mergeIfNeeded(models) == IF Len(models) = 1 THEN models[1] ELSE mergeModels(models)

\* faulty variant of the year repair: the state is left as the user set it
repairYearsKeep(st, dom) == st

\* faulty variant of the year repair: the two ends are exchanged whether or
\* not they are inverted
repairYearsSwapAlways(st, dom) ==
  [st EXCEPT !.yearFrom = Num(Clamp(dom[1], dom[2],
                                    IF IsNum(st.yearTo) THEN Val(st.yearTo) ELSE dom[2])),
             !.yearTo = Num(Clamp(dom[1], dom[2],
                                  IF IsNum(st.yearFrom) THEN Val(st.yearFrom) ELSE dom[1]))]

\* computeDerived, lines 308-315 (and syncYearDomainToSliders): default,
\* clamp and swap of the year range; dom is <<minY, maxY>>
repairYears(st, dom) ==
  LET f1 == Clamp(dom[1], dom[2], IF IsNum(st.yearFrom) THEN Val(st.yearFrom) ELSE dom[1])
      t1 == Clamp(dom[1], dom[2], IF IsNum(st.yearTo) THEN Val(st.yearTo) ELSE dom[2])
  IN [st EXCEPT !.yearFrom = Num(Min2(f1, t1)), !.yearTo = Num(Max2(f1, t1))]

\* computeDerived.computeUniverseForYearRange; Number(null) is 0
RECURSIVE universeLoop(_, _, _, _)
universeLoop(bars, st, enabledTypesSet, u) ==
  IF bars = <<>> THEN u
  ELSE
    LET b == Head(bars)
        y == Val(NumberOf(b.year))
        t == cleanKey(b.type)
        c == b.cat
        out == \/ (IsNum(st.yearFrom) /\ y < Val(st.yearFrom))
               \/ (IsNum(st.yearTo) /\ y > Val(st.yearTo))
        u1 == IF t # <<>> THEN [u EXCEPT !.types = @ \cup {t}] ELSE u
        u2 == IF (t # <<>> /\ t \notin enabledTypesSet) \/ c = <<>> THEN u1
              ELSE [u1 EXCEPT !.cats = @ \cup {c}]
    IN universeLoop(Tail(bars), st, enabledTypesSet, IF out THEN u ELSE u2)

computeUniverseForYearRange(model, st, enabledTypesSet) ==
  LET u == universeLoop(model.bars, st, enabledTypesSet, [types |-> {}, cats |-> {}])
  IN [types |-> SortTexts(u.types), cats |-> SortTexts(u.cats)]

\* computeDerived, lines 471-475: every bar of every loaded source
RECURSIVE rowsOfRaw(_)
rowsOfRaw(raw) ==
  IF raw = <<>> THEN <<>>
  ELSE [i \in 1..Len(Head(raw).model.bars) |->
          [sourceId |-> Head(raw).sid,
           yearKey |-> Head(raw).model.bars[i].yearKey,
           year |-> Head(raw).model.bars[i].year,
           cat |-> Head(raw).model.bars[i].cat,
           type |-> Head(raw).model.bars[i].type,
           kosten |-> Head(raw).model.bars[i].kosten,
           menge |-> Head(raw).model.bars[i].menge]] \o rowsOfRaw(Tail(raw))

NullDerived == [options |-> Null, view |-> Null, graph |-> Null, aggregates |-> Null]

\* faulty variant of the source selection: every loaded source is selected
SelectEntriesAll(raw, enabledSources) == raw

RECURSIVE SelectEntries(_, _)
SelectEntries(raw, enabledSources) ==
  IF raw = <<>> THEN <<>>
  ELSE IF Head(raw).sid \in enabledSources
       THEN <<Head(raw)>> \o SelectEntries(Tail(raw), enabledSources)
       ELSE SelectEntries(Tail(raw), enabledSources)

\* computeDerived, lines 495-510: graph and commit
deriveCommit(raw, st2, options, enabledSources, sourceEntries, enabledTypes, mergedSelected, enabledCats, view) ==
  [state |-> st2, raised |-> FALSE,
   derived |->
     [options |-> options,
      view |-> view,
      graph |-> buildLegendGraph(
        [sourceEntries |-> sourceEntries, enabledSources |-> enabledSources,
         enabledTypes |-> enabledTypes, enabledCatSet |-> Range(enabledCats),
         legendEnabledCats |-> Range(options.universe.cats) \ st2.disabledCats,
         mergedSelected |-> mergedSelected,
         mode |-> st2.mode, yearFrom |-> st2.yearFrom, yearTo |-> st2.yearTo,
         undatedLabel |-> IF view.undatedLabel # <<>> THEN view.undatedLabel
                          ELSE DEFAULT_UNDATED]),
      aggregates |-> aggregate(rowsOfRaw(raw), st2)]]

\* computeDerived, lines 459-460: the visible categories that are not disabled
enabledCatsOf(visibleCats, st2) ==
  FilterSeq(visibleCats, Range(visibleCats) \ st2.disabledCats)

\* faulty variant of the clamp: disabledCats is cut down to the categories
\* of the current window
clampDisabledCatsToWindow(st, options) ==
  [st EXCEPT !.disabledCats = @ \cap Range(options.inRange.cats)]

\* computeDerived, lines 453-457 and 479-483: disabledCats is clamped to the
\* category universe
clampDisabledCats(st, options) ==
  [st EXCEPT !.disabledCats = @ \cap Range(options.universe.cats)]

\* computeDerived, lines 446-462: visible categories, clamp of disabledCats, view
deriveView(raw, st1, options, enabledSources, sourceEntries, enabledTypes, mergedSelected, typeFiltered) ==
  deriveCommit(raw,
    clampDisabledCats(st1, options),
    options, enabledSources, sourceEntries, enabledTypes, mergedSelected,
    enabledCatsOf(
      dedupeStable(getVisibleCatsForRange(typeFiltered, st1.yearFrom, st1.yearTo,
                                          st1.enabledTypes)),
      clampDisabledCats(st1, options)),
    makeVisibleModel(typeFiltered, st1.yearFrom, st1.yearTo, st1.enabledTypes))

\* computeDerived, lines 428-433: options.inRange, options.types, options.cats
optionsInRange(options0, uni) ==
  [options0 EXCEPT
     !.inRange = [types |-> IF uni.types # <<>> THEN uni.types
                            ELSE options0.universe.types,
                  cats |-> IF uni.cats # <<>> THEN uni.cats
                           ELSE options0.universe.cats],
     !.types = IF uni.types # <<>> THEN uni.types ELSE options0.universe.types,
     !.cats = IF uni.cats # <<>> THEN uni.cats ELSE options0.universe.cats]

\* computeDerived, lines 396-438: in-range universes and the type-filtered model
deriveMerged(raw, st1, options0, enabledSources, sourceEntries, enabledTypes, mergedSelected) ==
  deriveView(raw, st1,
    optionsInRange(options0,
                   computeUniverseForYearRange(mergedSelected, st1, enabledTypes)),
    enabledSources, sourceEntries, enabledTypes, mergedSelected,
    makeVisibleModel(mergedSelected, st1.yearFrom, st1.yearTo, SetOf(enabledTypes)))

\* computeDerived, lines 368-391: early return without a selected source,
\* guard of the enabled types, merge of the selected models
deriveForEntries(raw, st1, derived0, options0, enabledSources, sourceEntries, enabledTypes) ==
  IF sourceEntries = <<>>
  THEN [state |-> st1, raised |-> FALSE,
        derived |-> [options |-> options0, view |-> Null, graph |-> Null,
                     aggregates |-> Null]]
  ELSE IF enabledTypes = {}
  THEN [state |-> st1, raised |-> TRUE, derived |-> derived0]
  ELSE deriveMerged(raw, st1, options0, enabledSources, sourceEntries, enabledTypes,
         mergeIfNeeded([i \in 1..Len(sourceEntries) |-> sourceEntries[i].model]))

\* computeDerived, lines 363-366: an empty Set of sources means all
enabledSourcesOf(st1, options0) ==
  IF st1.enabledSourceIds # {} THEN st1.enabledSourceIds ELSE Range(options0.sources)

\* computeDerived, lines 377-380: null or an empty Set of types means all
enabledTypesOf(st1, options0) ==
  IF st1.enabledTypes.isSet /\ st1.enabledTypes.elems # {}
  THEN st1.enabledTypes.elems ELSE Range(options0.universe.types)

\* computeDerived, steps 2-7, after the universes exist
deriveSelected(raw, st1, derived0, options0) ==
  deriveForEntries(raw, st1, derived0, options0, enabledSourcesOf(st1, options0),
                   SelectEntries(raw, enabledSourcesOf(st1, options0)),
                   enabledTypesOf(st1, options0))

\* computeDerived, lines 320-328: the type and the category universe
typesUniverseOf(base) ==
  dedupeStable(FilterSeq([i \in 1..Len(base.types) |-> cleanKey(base.types[i])],
                         {cleanKey(base.types[i]) : i \in 1..Len(base.types)} \ {<<>>}))
catsUniverseOf(base) == dedupeStable(base.cats)

\* computeDerived, lines 338-358: the options before the in-range universes
optionsOf(raw, base, st1, yearDomain) ==
  [yearDomain |-> yearDomain,
   yearBounds |-> getVisibleYearRange(base, st1.yearFrom, st1.yearTo),
   sources |-> [i \in 1..Len(raw) |-> raw[i].sid],
   universe |-> [types |-> typesUniverseOf(base), cats |-> catsUniverseOf(base)],
   inRange |-> [types |-> <<>>, cats |-> <<>>],
   types |-> <<>>, cats |-> <<>>]

\* faulty variant of the base step: a pass that finds no year domain
\* publishes an all-null view before it raises
deriveFromBasePublishing(raw, st, derived0, base, yearDomain) ==
  IF yearDomain = Null THEN [state |-> st, raised |-> TRUE, derived |-> NullDerived]
  ELSE deriveSelected(raw, repairYears(st, yearDomain), derived0,
                      optionsOf(raw, base, repairYears(st, yearDomain), yearDomain))

\* computeDerived, lines 299-328: year domain, repair of the year range,
\* universes
deriveFromBase(raw, st, derived0, base, yearDomain) ==
  IF yearDomain = Null THEN [state |-> st, raised |-> TRUE, derived |-> derived0]
  ELSE IF <<>> \in Range(base.types) \/ typesUniverseOf(base) = <<>>
          \/ <<>> \in Range(base.cats) \/ catsUniverseOf(base) = <<>>
  THEN [state |-> repairYears(st, yearDomain), raised |-> TRUE, derived |-> derived0]
  ELSE deriveSelected(raw, repairYears(st, yearDomain), derived0,
                      optionsOf(raw, base, repairYears(st, yearDomain), yearDomain))

\* computeDerived, from the base model on
deriveBase(raw, st, derived0, base) ==
  deriveFromBase(raw, st, derived0, base, getYearDomain(base))

\* renderer.js computeDerived(ctx); derived0 is ctx.derived before the call
computeDerived(raw, st, derived0) ==
  IF raw = <<>> THEN [state |-> st, raised |-> FALSE, derived |-> NullDerived]
  ELSE deriveBase(raw, st, derived0, mergeIfNeeded([i \in 1..Len(raw) |-> raw[i].model]))

\* computeDerived, lines 287-293 and 384-386: the number of times one pass
\* invokes mergeModels; mergeIfNeeded invokes it for two or more models, once
\* for the base model and once more for the selected sources when the pass
\* gets that far
mergeCalls(raw, st) ==
  IF raw = <<>> THEN 0
  ELSE (IF Len(raw) >= 2 THEN 1 ELSE 0)
       + (IF ~computeDerived(raw, st, NullDerived).raised
             /\ Len(SelectEntries(raw, IF st.enabledSourceIds # {}
                                       THEN st.enabledSourceIds
                                       ELSE {raw[i].sid : i \in 1..Len(raw)})) >= 2
          THEN 1 ELSE 0)

(***************************************************************************)
(* The application: boot (app-boot.js, api.js loadData), the redraw        *)
(* coalescing of main.js, the redraw pipeline of renderer.js and the       *)
(* handlers of ui.js.                                                      *)
(***************************************************************************)
VARIABLES config, raw, state, derived, flags, dom, renderPhase, burst

\* input and result of the functions that are checked on their own
VARIABLES input, output

appVars == <<config, raw, state, derived, flags, dom, renderPhase, burst>>
vars == <<config, raw, state, derived, flags, dom, renderPhase, burst, input, output>>

\* between two frames: at most this many check-box toggles of the sources
\* and types dropdowns in a row, or one user event of any other kind
MaxBurst == 2

\* one CSV data line, cell by cell
Line(cat, typ, jahr, betrag, menge, status) ==
  [Kategorie |-> cat, Buchungstyp |-> typ, Von |-> <<>>, Bis |-> <<>>,
   Jahr |-> jahr, Betrag |-> betrag, Menge |-> menge, Einheit |-> <<>>,
   Status |-> status]

SrcA == <<"A">>
SrcB == <<"B">>
CatA == <<"a">>
CatB == <<"b">>
TypC == <<"c">>
TypD == <<"d">>

\* one source: two dated actual rows and an undated planned row
DataSingle ==
  << [sid |-> SrcA,
      lines |-> << Line(CatA, TypC, ToStr(2020), <<"1", "0">>, <<"2">>, <<>>),
                   Line(CatB, TypD, ToStr(2021), <<"-", "5">>, <<"1">>, <<>>),
                   Line(CatA, TypD, <<>>, <<"3">>, <<>>, <<>>) >>] >>

\* two sources: a planned row that extends the year domain, an undated
\* actual row, and a bar that both sources share
DataTwo ==
  << [sid |-> SrcA,
      lines |-> << Line(CatA, TypC, ToStr(2020), <<"1", "0">>, <<"2">>, <<>>),
                   Line(CatB, TypC, ToStr(2022), <<"7">>, <<>>, TxtGeplant) >>],
     [sid |-> SrcB,
      lines |-> << Line(CatA, TypC, ToStr(2020), <<"-", "4">>, <<"1">>, <<>>),
                   Line(CatB, TypD, ToStr(2021), <<"6">>, <<"3">>, <<>>),
                   Line(CatB, TypD, <<>>, <<"2">>, <<>>, TxtIst) >>] >>

\* one source whose rows are all undated: the model has no year
DataUndated ==
  << [sid |-> SrcA,
      lines |-> << Line(CatA, TypC, <<>>, <<"1">>, <<>>, TxtIst) >>] >>

\* two sources, the second without a line whose amount parses: buildModel
\* raises for it
DataBroken ==
  << [sid |-> SrcA,
      lines |-> << Line(CatA, TypC, ToStr(2020), <<"1", "0">>, <<"2">>, <<>>) >>],
     [sid |-> SrcB,
      lines |-> << Line(CatB, TypD, ToStr(2021), <<"x">>, <<>>, <<>>) >>] >>

Datasets == {DataSingle, DataTwo, DataUndated, DataBroken}

ConfigIds == {config[i].sid : i \in 1..Len(config)}
LoadedIds == {raw[i].sid : i \in 1..Len(raw)}

\* app-boot.js createInitialState
createInitialState(cfg) ==
  [mode |-> "kosten", yearFrom |-> Null, yearTo |-> Null,
   enabledSourceIds |-> {cfg[i].sid : i \in 1..Len(cfg)},
   enabledTypes |-> NullSet, disabledCats |-> {}, isScrubbingYears |-> FALSE]

\* app-boot.js createInitialFlags, with the flags main.js adds
createInitialFlags ==
  [ready |-> FALSE, redrawNeeded |-> FALSE, redrawScheduled |-> FALSE,
   redrawInFlight |-> FALSE, redrawQueued |-> FALSE, dataDirty |-> FALSE,
   bootFailed |-> FALSE]

\* the controls before the first render: no slider range, no check boxes
EmptyDom ==
  [synced |-> FALSE, min |-> 0, max |-> 0, fromValue |-> 0, toValue |-> 0,
   rendered |-> FALSE, srcEnabled |-> {}, typeEnabled |-> {}, typeValues |-> <<>>,
   catValues |-> <<>>, catAlias |-> TRUE, catSet |-> {}, legendCats |-> <<>>]

\* ctx.derived before the first derivation
NoDerived == <<"undefined">>

Init ==
  /\ config \in Datasets
  /\ raw = <<>>
  /\ state = createInitialState(config)
  /\ derived = NoDerived
  /\ flags = createInitialFlags
  /\ dom = EmptyDom
  /\ renderPhase = "none"
  /\ burst = 0
  /\ input = Null
  /\ output = Null

\* main.js requestRedraw(ctx), up to the frame request
requestRedraw(f) ==
  IF ~f.ready THEN [f EXCEPT !.redrawNeeded = TRUE]
  ELSE [f EXCEPT !.redrawNeeded = TRUE, !.redrawScheduled = TRUE]

\* api.js loadData.loadSource: the fetch of one source completes
SourceArrives(i) ==
  /\ ~flags.ready /\ ~flags.bootFailed
  /\ config[i].sid \notin LoadedIds
  /\ LET model == buildModel(config[i].lines, config[i].sid)
     IN IF model.error
        THEN /\ flags' = [flags EXCEPT !.bootFailed = TRUE]
             /\ raw' = raw
        ELSE /\ raw' = Append(raw, [sid |-> config[i].sid, model |-> model])
             /\ flags' = flags
  /\ UNCHANGED <<config, state, derived, dom, renderPhase, burst, input, output>>

\* faulty variant of the end of boot: boot goes on with the sources that did
\* load, whether or not a source failed
BootFinishAnyway ==
  /\ ~flags.ready
  /\ raw # <<>>
  /\ flags' = [requestRedraw([flags EXCEPT !.ready = TRUE]) EXCEPT !.dataDirty = TRUE]
  /\ UNCHANGED <<config, raw, state, derived, dom, renderPhase, burst, input, output>>

\* app-boot.js boot after loadData: finalizeBootAndRender, then main.js
\* lines 115-128
BootFinish ==
  /\ ~flags.ready /\ ~flags.bootFailed
  /\ LoadedIds = ConfigIds
  /\ flags' = [requestRedraw([flags EXCEPT !.ready = TRUE]) EXCEPT !.dataDirty = TRUE]
  /\ UNCHANGED <<config, raw, state, derived, dom, renderPhase, burst, input, output>>

\* renderer.js syncUI: syncYearDomainToSliders, then ui.js renderOptions,
\* which captures the enabled Sets for the check boxes it creates
syncUI(d, st, options, view) ==
  [synced |-> TRUE,
   min |-> options.yearDomain[1], max |-> options.yearDomain[2],
   fromValue |-> Val(st.yearFrom), toValue |-> Val(st.yearTo),
   rendered |-> TRUE,
   srcEnabled |-> st.enabledSourceIds,
   typeEnabled |-> st.enabledTypes.elems,
   typeValues |-> dedupeStable(FilterSeq(
                    [i \in 1..Len(options.inRange.types) |-> Trim(options.inRange.types[i])],
                    {Trim(options.inRange.types[i]) :
                       i \in 1..Len(options.inRange.types)} \ {<<>>})),
   catValues |-> dedupeStable(options.inRange.cats),
   catAlias |-> TRUE, catSet |-> {},
   legendCats |-> IF view = Null \/ view.bars = <<>> THEN <<>>
                  ELSE dedupeStable(view.cats)]

\* main.js: the animation-frame callback of requestRedraw, with the whole
\* of renderer.js redraw(ctx) and the finally block
RafCallback ==
  /\ flags.redrawScheduled
  /\ burst' = 0
  /\ UNCHANGED <<config, raw, input, output>>
  /\ IF ~flags.ready \/ flags.redrawInFlight
     THEN /\ flags' = [flags EXCEPT !.redrawScheduled = FALSE]
          /\ UNCHANGED <<state, derived, dom, renderPhase>>
     ELSE
       \E r \in {computeDerived(raw, state, derived)} :
          /\ flags' = [flags EXCEPT !.redrawScheduled = FALSE,
                                     !.redrawNeeded = FALSE,
                                     !.redrawInFlight = FALSE]
          /\ derived' = r.derived
          /\ IF r.raised \/ r.derived.options = Null
             THEN /\ state' = r.state
                  /\ renderPhase' = "computeDerived"
                  /\ dom' = dom
             ELSE /\ state' = repairYears(r.state, r.derived.options.yearDomain)
                  /\ dom' = syncUI(dom, r.state, r.derived.options, r.derived.view)
                  /\ renderPhase' =
                       IF r.derived.view = Null \/ r.derived.view.bars = <<>>
                       THEN "renderNoData" ELSE "done"

\* a user event is delivered once the controls are wired (after boot)
UserEvent ==
  /\ flags.ready
  /\ burst = 0
  /\ burst' = MaxBurst
  /\ UNCHANGED <<config, raw, derived, renderPhase, input, output>>

\* a check box of the sources or types dropdown is clicked
ToggleEvent ==
  /\ flags.ready
  /\ burst < MaxBurst
  /\ burst' = burst + 1
  /\ UNCHANGED <<config, raw, derived, renderPhase, input, output>>

\* ui.js setAllSources
SetAllSources ==
  /\ UserEvent
  /\ state' = [state EXCEPT !.enabledSourceIds = {}]
  /\ flags' = requestRedraw([flags EXCEPT !.dataDirty = TRUE])
  /\ dom' = dom

\* ui.js setAllTypes
SetAllTypes ==
  /\ UserEvent
  /\ state' = [state EXCEPT !.enabledTypes = SetOf({})]
  /\ flags' = requestRedraw(flags)
  /\ dom' = dom

\* ui.js setAllCats: the state gets a fresh Set; the check boxes keep the old one
SetAllCats ==
  /\ UserEvent
  /\ state' = [state EXCEPT !.disabledCats = {}]
  /\ flags' = requestRedraw(flags)
  /\ dom' = IF dom.rendered /\ dom.catAlias
            THEN [dom EXCEPT !.catAlias = FALSE, !.catSet = state.disabledCats]
            ELSE dom

\* ui.js renderOptions, onToggle of a source check box
ToggleSource(id, checked) ==
  /\ ToggleEvent
  /\ dom.rendered
  /\ LET cur0 == IF dom.srcEnabled = {} THEN ConfigIds ELSE dom.srcEnabled
         cur == IF checked THEN cur0 \cup {id} ELSE cur0 \ {id}
     IN IF cur = {}
        THEN /\ state' = state
             /\ flags' = requestRedraw(flags)
        ELSE /\ state' = [state EXCEPT !.enabledSourceIds =
                             IF Cardinality(cur) = Len(config) THEN {} ELSE cur]
             /\ flags' = requestRedraw([flags EXCEPT !.dataDirty = TRUE])
  /\ dom' = dom

\* ui.js renderOptions, onToggle of a type check box
ToggleType(t, checked) ==
  /\ ToggleEvent
  /\ dom.rendered
  /\ LET cur0 == IF dom.typeEnabled = {} THEN Range(dom.typeValues) ELSE dom.typeEnabled
         cur == IF checked THEN cur0 \cup {t} ELSE cur0 \ {t}
     IN state' = [state EXCEPT !.enabledTypes =
                    SetOf(IF Cardinality(cur) = Len(dom.typeValues) THEN {} ELSE cur)]
  /\ flags' = requestRedraw(flags)
  /\ dom' = dom

\* ui.js renderOptions, onToggle of a category check box
ToggleCat(c, checked) ==
  /\ UserEvent
  /\ dom.rendered
  /\ IF dom.catAlias
     THEN /\ state' = [state EXCEPT !.disabledCats =
                          IF checked THEN @ \ {c} ELSE @ \cup {c}]
          /\ dom' = dom
     ELSE /\ state' = state
          /\ dom' = [dom EXCEPT !.catSet = IF checked THEN @ \ {c} ELSE @ \cup {c}]
  /\ flags' = requestRedraw(flags)

\* renderer.js redraw, onToggle handed to the legend
LegendToggle(c, checked) ==
  /\ UserEvent
  /\ state' = [state EXCEPT !.disabledCats =
                  IF checked THEN @ \ {c} ELSE @ \cup {c}]
  /\ flags' = requestRedraw(flags)
  /\ dom' = dom

\* ui.js wireModeAndYears: change of the mode select
ModeChange(m) ==
  /\ UserEvent
  /\ state' = [state EXCEPT !.mode = IF m = "menge" THEN "menge" ELSE "kosten"]
  /\ flags' = requestRedraw(flags)
  /\ dom' = dom

\* ui.js clampToDom
clampToDom(v, d) == Min2(d.max, Max2(d.min, v))

\* ui.js wireModeAndYears: input on the lower slider (no redraw)
YearFromInput(v) ==
  /\ UserEvent
  /\ dom.synced
  /\ dom' = [dom EXCEPT !.fromValue = v]
  /\ state' = [state EXCEPT !.isScrubbingYears = TRUE,
                            !.yearFrom = Num(clampToDom(v, dom))]
  /\ flags' = flags

\* ui.js wireModeAndYears: input on the upper slider (no redraw)
YearToInput(v) ==
  /\ UserEvent
  /\ dom.synced
  /\ dom' = [dom EXCEPT !.toValue = v]
  /\ state' = [state EXCEPT !.isScrubbingYears = TRUE,
                            !.yearTo = Num(clampToDom(v, dom))]
  /\ flags' = flags

\* ui.js wireModeAndYears: commit (normalizeYears, then one redraw request)
YearCommit ==
  /\ UserEvent
  /\ dom.synced
  /\ LET yf == clampToDom(dom.fromValue, dom)
         yt == clampToDom(dom.toValue, dom)
     IN state' = [state EXCEPT !.isScrubbingYears = FALSE,
                               !.yearFrom = Num(Min2(yf, yt)),
                               !.yearTo = Num(Max2(yf, yt))]
  /\ flags' = requestRedraw(flags)
  /\ dom' = dom

Next ==
  \/ \E i \in 1..Len(config) : SourceArrives(i)
  \/ BootFinish
  \/ RafCallback
  \/ SetAllSources
  \/ SetAllTypes
  \/ SetAllCats
  \/ \E id \in ConfigIds, checked \in BOOLEAN : ToggleSource(id, checked)
  \/ \E t \in Range(dom.typeValues), checked \in BOOLEAN : ToggleType(t, checked)
  \/ \E c \in Range(dom.catValues), checked \in BOOLEAN : ToggleCat(c, checked)
  \/ \E c \in Range(dom.legendCats), checked \in BOOLEAN : LegendToggle(c, checked)
  \/ \E m \in {"kosten", "menge"} : ModeChange(m)
  \/ \E v \in dom.min..dom.max : YearFromInput(v)
  \/ \E v \in dom.min..dom.max : YearToInput(v)
  \/ YearCommit

Spec == Init /\ [][Next]_vars

(***************************************************************************)
(* The row parser on its own: two data lines that differ at most in the    *)
(* category cell are parsed by parseRows.                                  *)
(***************************************************************************)
\* the application does not run while a function is checked on its own
AppIdle ==
  /\ config = <<>> /\ raw = <<>> /\ state = createInitialState(<<>>)
  /\ derived = NoDerived /\ flags = createInitialFlags /\ dom = EmptyDom
  /\ renderPhase = "none" /\ burst = 0

JahrCells == {<<>>, <<" ">>, ToStr(2021), ToStr(1800), <<"x">>}
VonCells == {<<>>, <<"0", "1", ".", "0", "1", ".", "2", "0", "1", "9">>, <<"x">>}
BisCells == {<<>>, <<"3", "1", ".", "1", "2", ".", "2", "0", "2", "0">>, <<"x">>}
BetragCells == {<<"1">>, <<"x">>, <<"1", ",", "5">>, <<"1", ".", "5">>,
                <<UMINUS, "2">>, <<ENDASH, "2">>}
StatusCells == {<<>>, TxtGeplant, TxtIst}
CatCells == {<<"a", " ", "b">>, <<"a", " ", " ", "b">>, <<"a", NBSP, "b">>,
             <<"A", " ", "b">>, <<" ", "a", " ", "b">>, <<>>}

ParseLines ==
  {[Kategorie |-> k, Buchungstyp |-> TypC, Von |-> v, Bis |-> b, Jahr |-> j,
    Betrag |-> m, Menge |-> <<>>, Einheit |-> <<>>, Status |-> s] :
     k \in CatCells, v \in VonCells, b \in BisCells, j \in JahrCells,
     m \in BetragCells, s \in StatusCells}

InitParse ==
  /\ AppIdle
  /\ input \in {<<l, [l EXCEPT !.Kategorie = k]>> : l \in ParseLines, k \in CatCells}
  /\ output = Null

\* parse.js parseRows over the data lines
ParseInput ==
  /\ output = Null
  /\ output' = parseRows(input)
  /\ UNCHANGED <<appVars, input>>

NextParse == ParseInput

SpecParse == InitParse /\ [][NextParse]_vars

\* the category a cell denotes if it is only trimmed, with "?" for the empty cell
TrimmedCategory(cell) == IF Trim(cell) = <<>> THEN <<"?">> ELSE Trim(cell)

\* C6: the category of a record is its cell trimmed and nothing else ("?" for
\* the empty cell), and two cells that differ after trimming give two
\* distinct categories
C6_CategoryTrimOnly ==
  output # Null =>
    /\ \A i \in 1..Len(output) : output[i].cat = TrimmedCategory(output[i].raw.Kategorie)
    /\ \A i, j \in 1..Len(output) :
         TrimmedCategory(output[i].raw.Kategorie) # TrimmedCategory(output[j].raw.Kategorie)
           => output[i].cat # output[j].cat

\* C7: a year cell that parses to an integer in [1900,2100] is the year of
\* the record whatever the date cells hold; otherwise the year comes from the
\* to-date, else from the from-date, else there is none
C7_YearAuthority ==
  output # Null =>
    \A i \in 1..Len(output) :
      LET cells == output[i].raw
      IN IF isValidYear(parseInt10(Trim(cells.Jahr)))
         THEN output[i].year = parseInt10(Trim(cells.Jahr))
         ELSE IF IsNum(yearFromDateStr(Trim(cells.Bis)))
         THEN output[i].year = yearFromDateStr(Trim(cells.Bis))
         ELSE IF IsNum(yearFromDateStr(Trim(cells.Von)))
         THEN output[i].year = yearFromDateStr(Trim(cells.Von))
         ELSE ~IsNum(output[i].year)

\* C7 witness: a parsed row whose valid year cell disagrees with both dates
C7_Witness ==
  /\ output # Null
  /\ \E i \in 1..Len(output) :
       /\ output[i].year = Num(2021)
       /\ yearFromDateStr(Trim(output[i].raw.Bis)) = Num(2020)
       /\ yearFromDateStr(Trim(output[i].raw.Von)) = Num(2019)

\* C8: a parsed row is undated exactly if its year, from and to cells are
\* all empty, whatever the other cells hold
C8_UndatedDetection ==
  output # Null =>
    \A i \in 1..Len(output) :
      output[i].isUndated <=>
        /\ Trim(output[i].raw.Jahr) = <<>>
        /\ Trim(output[i].raw.Von) = <<>>
        /\ Trim(output[i].raw.Bis) = <<>>

\* C8 witness: a parsed row without year, from and to cell that carries an
\* explicit status and an amount, and is undated
C8_Witness ==
  /\ output # Null
  /\ \E i \in 1..Len(output) :
       /\ output[i].isUndated
       /\ output[i].raw.Jahr = <<>>
       /\ output[i].raw.Status = TxtIst
       /\ output[i].raw.Betrag = <<"1">>

(***************************************************************************)
(* The data pipeline on its own: the per-source models of one or two       *)
(* sources are built (parse.js buildModel), merged (api.js mergeModels)    *)
(* and derived (renderer.js computeDerived) under a filter state.  Next to *)
(* every input the same input without its planned rows is processed.       *)
(***************************************************************************)
\* at most this many data lines in a source that is loaded alone, and one
\* less in the first of two sources; the second of two sources has one line
MaxRows == 2

CatSepL == <<"a", "|", "|", "b">>
CatZ == <<"z">>
CatN == <<"n">>
TypN == <<"m">>
TypSepR == <<"b", "|", "|", "c">>

ModelLines ==
  { Line(CatA, TypC, ToStr(2020), <<"1", "0", "0">>, <<"2">>, <<>>),
    Line(CatSepL, TypC, ToStr(2020), <<"1">>, <<"1">>, <<>>),
    Line(CatA, TypSepR, ToStr(2020), <<"2">>, <<>>, <<>>),
    Line(CatB, TypD, ToStr(2021), <<"-", "4">>, <<"1">>, TxtIst),
    Line(CatB, TypD, ToStr(2020), <<"7">>, <<"1">>, TxtIst),
    Line(CatB, TypC, ToStr(2022), <<"7">>, <<"3">>, TxtGeplant),
    Line(CatA, TypC, <<>>, <<"3">>, <<>>, TxtGeplant),
    Line(CatA, TypC, <<>>, <<"5">>, <<"1">>, TxtIst),
    Line(CatN, TypN, <<"x">>, <<"9">>, <<"1">>, TxtIst),
    Line(CatN, TypN, ToStr(2020), <<"x">>, <<"1">>, TxtIst) }

\* the data lines of a source that loads: buildModel raises for a text
\* without a line whose amount parses, and such a source is never loaded
LineSeqs(max) ==
  {s \in UNION {[1..n -> ModelLines] : n \in 1..max} : parseRows(s) # <<>>}

ModelInputs ==
  {<<[sid |-> SrcA, lines |-> a]>> : a \in LineSeqs(MaxRows)}
    \cup {<<[sid |-> SrcA, lines |-> a], [sid |-> SrcB, lines |-> b]>> :
            a \in LineSeqs(MaxRows - 1), b \in LineSeqs(1)}

\* the filter states a pass is run under
ModelState(yf, yt, m, srcs, types, disabled) ==
  [mode |-> m, yearFrom |-> yf, yearTo |-> yt, enabledSourceIds |-> srcs,
   enabledTypes |-> types, disabledCats |-> disabled, isScrubbingYears |-> FALSE]

ModelStates ==
  { ModelState(Null, Null, "kosten", {SrcA, SrcB}, NullSet, {}),
    ModelState(Num(2020), Num(2020), "menge", {SrcA, SrcB}, NullSet, {}),
    ModelState(Num(2021), Num(2022), "kosten", {SrcA, SrcB}, SetOf({TypC, TypD}), {}),
    ModelState(Null, Null, "kosten", {SrcA}, SetOf({TypC}), {CatB}),
    ModelState(Num(2022), Num(1999), "kosten", {SrcA, SrcB}, NullSet, {}),
    ModelState(NaN, Num(2021), "menge", {SrcA, SrcB}, NullSet, {}),
    ModelState(Num(2020), Num(2020), "kosten", {SrcA, SrcB}, NullSet, {CatB, CatZ}),
    ModelState(Null, Null, "kosten", {SrcB}, NullSet, {}) }

\* is the data line one that parseRows gives the status planned
lineIsPlanned(l) ==
  /\ IsNum(parseNumberStrict(cleanText(l.Betrag)))
  /\ parseRow(l).status = "planned"

\* the sources without their planned lines
RemovePlanned(srcs) ==
  [i \in 1..Len(srcs) |->
     [sid |-> srcs[i].sid,
      lines |-> FilterSeq(srcs[i].lines,
                          {l \in Range(srcs[i].lines) : ~lineIsPlanned(l)})]]

\* api.js loadData: ctx.raw.bySource for sources that all load
modelsOf(srcs) ==
  [i \in 1..Len(srcs) |->
     [sid |-> srcs[i].sid, model |-> buildModel(srcs[i].lines, srcs[i].sid)]]

allBuilt(entries) == \A i \in 1..Len(entries) : ~entries[i].model.error

InitModel ==
  /\ AppIdle
  /\ input \in ModelInputs
  /\ output = Null

\* api.js loadData over all sources
BuildModels ==
  /\ output = Null
  /\ output' = [stage |-> "built", models |-> modelsOf(input),
                plain |-> modelsOf(RemovePlanned(input)),
                merged |-> Null, st |-> Null, pass |-> Null, plainPass |-> Null]
  /\ UNCHANGED <<appVars, input>>

\* api.js mergeModels over the models of all sources
MergeBuilt ==
  /\ output # Null
  /\ output.stage = "built"
  /\ output' = [output EXCEPT
                  !.stage = "merged",
                  !.merged = mergeModels([i \in 1..Len(output.models) |->
                                            output.models[i].model])]
  /\ UNCHANGED <<appVars, input>>

\* renderer.js computeDerived under one of the filter states
DerivePass ==
  /\ output # Null
  /\ output.stage = "merged"
  /\ \E st \in ModelStates :
       output' = [output EXCEPT
                    !.stage = "derived",
                    !.st = st,
                    !.pass = computeDerived(output.models, st, NoDerived),
                    !.plainPass = IF allBuilt(output.plain)
                                  THEN computeDerived(output.plain, st, NoDerived)
                                  ELSE Null]
  /\ UNCHANGED <<appVars, input>>

NextModel == BuildModels \/ MergeBuilt \/ DerivePass

SpecModel == InitModel /\ [][NextModel]_vars

(***************************************************************************)
(* The redraw scheduler on its own.  main.js requestRedraw, its            *)
(* animation-frame callback and the end of a redraw are separate steps,    *)
(* taken in any order: a redraw stays in flight between its start and its  *)
(* completion, and calls and frames may arrive in between.  input counts   *)
(* the requestRedraw calls and notes when they were made; output counts    *)
(* the frame callbacks that are pending, the redraws that are executing,   *)
(* and the number of calls made before the latest redraw started.          *)
(***************************************************************************)
\* at most this many requestRedraw calls by listeners
MaxCalls == 3

\* main.js requestRedraw: the number of frame callbacks the call registers
framesRequested(f) == IF f.ready /\ ~f.redrawScheduled THEN 1 ELSE 0

\* when a call is made
callMoment(f) ==
  IF ~f.ready THEN "boot"
  ELSE IF f.redrawInFlight THEN "inFlight"
  ELSE IF f.redrawScheduled THEN "scheduled" ELSE "idle"

InitRedraw ==
  /\ AppIdle
  /\ input = [calls |-> 0, during |-> {}]
  /\ output = [frames |-> 0, running |-> 0, served |-> 0]

\* a listener asks for a redraw: through the gated hook of app-boot.js
\* while boot runs (or main.js requestRedraw directly), main.js
\* requestRedraw afterwards
RequestCall(gated) ==
  /\ input.calls < MaxCalls
  /\ gated => ~flags.ready
  /\ input' = [calls |-> input.calls + 1,
               during |-> input.during \cup {callMoment(flags)}]
  /\ IF gated
     THEN /\ flags' = [flags EXCEPT !.redrawQueued = TRUE]
          /\ output' = output
     ELSE /\ flags' = requestRedraw(flags)
          /\ output' = [output EXCEPT !.frames = @ + framesRequested(flags)]
  /\ UNCHANGED <<config, raw, state, derived, dom, renderPhase, burst>>

\* app-boot.js finalizeBootAndRender, then main.js lines 115-128
BootCompletes ==
  /\ ~flags.ready
  /\ \E f \in {[flags EXCEPT !.ready = TRUE, !.redrawQueued = FALSE]} :
        /\ flags' = [requestRedraw(f) EXCEPT !.dataDirty = TRUE]
        /\ output' = [output EXCEPT !.frames = @ + framesRequested(f)]
  /\ UNCHANGED <<config, raw, state, derived, dom, renderPhase, burst, input>>

\* faulty variant of the frame callback: a redraw starts although one is in
\* flight
FrameFiresOverlapping ==
  /\ output.frames > 0
  /\ IF ~flags.ready
     THEN /\ flags' = [flags EXCEPT !.redrawScheduled = FALSE]
          /\ output' = [output EXCEPT !.frames = @ - 1]
     ELSE /\ flags' = [flags EXCEPT !.redrawScheduled = FALSE,
                                    !.redrawNeeded = FALSE,
                                    !.redrawInFlight = TRUE]
          /\ output' = [output EXCEPT !.frames = @ - 1, !.running = @ + 1,
                                      !.served = input.calls]
  /\ UNCHANGED <<config, raw, state, derived, dom, renderPhase, burst, input>>

\* main.js: the animation-frame callback of requestRedraw, up to the start
\* of redraw(ctx)
FrameFires ==
  /\ output.frames > 0
  /\ IF ~flags.ready \/ flags.redrawInFlight
     THEN /\ flags' = [flags EXCEPT !.redrawScheduled = FALSE]
          /\ output' = [output EXCEPT !.frames = @ - 1]
     ELSE /\ flags' = [flags EXCEPT !.redrawScheduled = FALSE,
                                    !.redrawNeeded = FALSE,
                                    !.redrawInFlight = TRUE]
          /\ output' = [output EXCEPT !.frames = @ - 1, !.running = @ + 1,
                                      !.served = input.calls]
  /\ UNCHANGED <<config, raw, state, derived, dom, renderPhase, burst, input>>

\* faulty variant of the end of a redraw: the calls made while it ran are
\* not taken up again
RedrawCompletesNoRetry(ok) ==
  /\ output.running > 0
  /\ renderPhase' = IF ok THEN "done" ELSE "computeDerived"
  /\ flags' = [flags EXCEPT !.redrawInFlight = FALSE]
  /\ output' = [output EXCEPT !.running = @ - 1]
  /\ UNCHANGED <<config, raw, state, derived, dom, burst, input>>

\* main.js: redraw(ctx) returns or raises (the failure is caught and
\* logged), then the finally block
RedrawCompletes(ok) ==
  /\ output.running > 0
  /\ renderPhase' = IF ok THEN "done" ELSE "computeDerived"
  /\ \E f \in {[flags EXCEPT !.redrawInFlight = FALSE]} :
        IF f.redrawNeeded /\ f.ready
        THEN /\ flags' = requestRedraw(f)
             /\ output' = [output EXCEPT !.running = @ - 1,
                                         !.frames = @ + framesRequested(f)]
        ELSE /\ flags' = f
             /\ output' = [output EXCEPT !.running = @ - 1]
  /\ UNCHANGED <<config, raw, state, derived, dom, burst, input>>

NextRedraw ==
  \/ \E gated \in BOOLEAN : RequestCall(gated)
  \/ BootCompletes
  \/ FrameFires
  \/ \E ok \in BOOLEAN : RedrawCompletes(ok)

\* boot completes, animation frames fire and each redraw terminates
SpecRedraw ==
  /\ InitRedraw /\ [][NextRedraw]_vars
  /\ WF_vars(BootCompletes)
  /\ WF_vars(FrameFires)
  /\ WF_vars(\E ok \in BOOLEAN : RedrawCompletes(ok))


\* the amounts a derivation pass publishes: the bars and totals of the
\* aggregates and the actual edge weights of the graph
AmountsOf(d) ==
  [bars |-> IF d.aggregates = Null THEN Null ELSE d.aggregates.bars,
   totalsByCat |-> IF d.aggregates = Null THEN Null ELSE d.aggregates.totalsByCat,
   totalsBySource |-> IF d.aggregates = Null THEN Null ELSE d.aggregates.totalsBySource,
   totalsByType |-> IF d.aggregates = Null THEN Null ELSE d.aggregates.totalsByType,
   totalsByYear |-> IF d.aggregates = Null THEN Null ELSE d.aggregates.totalsByYear,
   hasAny |-> IF d.aggregates = Null THEN Null ELSE d.aggregates.hasAny,
   sourceTypeWeight |-> IF d.graph = Null THEN Null ELSE d.graph.sourceTypeWeight,
   typeCatWeight |-> IF d.graph = Null THEN Null ELSE d.graph.typeCatWeight,
   sourceCatWeight |-> IF d.graph = Null THEN Null ELSE d.graph.sourceCatWeight]

\* both passes ran, and the year window of the filter state is unset or lies
\* in the year domain of the sources without their planned rows
SameWindow ==
  /\ output.plainPass # Null
  /\ ~output.pass.raised /\ ~output.plainPass.raised
  /\ output.plainPass.derived.options # Null
  /\ LET d == output.plainPass.derived.options.yearDomain
     IN /\ IsNum(output.st.yearFrom) =>
             (d[1] <= Val(output.st.yearFrom) /\ Val(output.st.yearFrom) <= d[2])
        /\ IsNum(output.st.yearTo) =>
             (d[1] <= Val(output.st.yearTo) /\ Val(output.st.yearTo) <= d[2])

ActualRows(lines) ==
  FilterSeq(parseRows(lines),
            {r \in Range(parseRows(lines)) : isChartable(r) /\ r.status = "actual"})

\* sum of f over the elements of s that satisfy the key
SumOfKey(s, yearKey, cat, type, field) ==
  SumSeq([k \in 1..Len(s) |->
            IF s[k].yearKey = yearKey /\ s[k].cat = cat /\ s[k].type = type
            THEN (IF field = "kosten" THEN s[k].kosten ELSE s[k].menge) ELSE 0])

\* the actual rows as (yearKey, cat, type, kosten, menge) records
AmountRows(lines) ==
  [k \in 1..Len(ActualRows(lines)) |->
     [yearKey |-> rowYearKey(ActualRows(lines)[k]),
      cat |-> ActualRows(lines)[k].cat,
      type |-> ActualRows(lines)[k].typ,
      kosten |-> ActualRows(lines)[k].kosten,
      menge |-> IF IsNum(ActualRows(lines)[k].menge)
                THEN Val(ActualRows(lines)[k].menge) ELSE 0]]

\* C2: in a per-source model the bars are unique per (yearKey, category,
\* type), and the cost and the quantity of a bar are the sums over exactly
\* the chartable actual records with its yearKey, category and type
C2_BarsArePerKeySums ==
  output # Null =>
    \A i \in 1..Len(input) :
      LET bars == output.models[i].model.bars
      IN /\ \A j, k \in 1..Len(bars) :
              (bars[j].yearKey = bars[k].yearKey /\ bars[j].cat = bars[k].cat
                 /\ bars[j].type = bars[k].type) => j = k
         /\ \A j \in 1..Len(bars) :
              /\ bars[j].kosten =
                   SumOfKey(AmountRows(input[i].lines), bars[j].yearKey,
                            bars[j].cat, bars[j].type, "kosten")
              /\ bars[j].menge =
                   SumOfKey(AmountRows(input[i].lines), bars[j].yearKey,
                            bars[j].cat, bars[j].type, "menge")

\* C3: every (yearKey, category, type) of an input bar is the key of exactly
\* one merged bar, whose cost and quantity are the sums over the input bars
\* with that key
C3_MergeConservation ==
  (output # Null /\ output.merged # Null) =>
    \A i \in 1..Len(rowsOfRaw(output.models)) :
      LET b == rowsOfRaw(output.models)[i]
          hits == {j \in 1..Len(output.merged.bars) :
                     /\ output.merged.bars[j].yearKey = b.yearKey
                     /\ output.merged.bars[j].cat = b.cat
                     /\ output.merged.bars[j].type = b.type}
      IN /\ Cardinality(hits) = 1
         /\ \A j \in hits :
              /\ output.merged.bars[j].kosten =
                   SumOfKey(rowsOfRaw(output.models), b.yearKey, b.cat, b.type, "kosten")
              /\ output.merged.bars[j].menge =
                   SumOfKey(rowsOfRaw(output.models), b.yearKey, b.cat, b.type, "menge")

\* C9: when every undated row of the sources is planned, hasUndated is false
\* in each per-source model and in the model the derivation uses
C9_PlannedNeverSetsHasUndated ==
  output # Null =>
    /\ \A i \in 1..Len(input) :
         (\A r \in Range(ActualRows(input[i].lines)) : ~r.isUndated)
           => ~output.models[i].model.hasUndated
    /\ (\A i \in 1..Len(input) :
          \A r \in Range(ActualRows(input[i].lines)) : ~r.isUndated)
         => ~mergeIfNeeded([i \in 1..Len(output.models) |->
                              output.models[i].model]).hasUndated

\* C10: after a derivation pass over at least one loaded source that does
\* not raise, yearFrom and yearTo are finite and ordered inside the year
\* domain of all loaded sources, whatever they were before
C10_YearStateRepair ==
  (output # Null /\ output.stage = "derived" /\ ~output.pass.raised) =>
    LET d == getYearDomain(mergeIfNeeded([i \in 1..Len(output.models) |->
                                            output.models[i].model]))
    IN /\ IsNum(output.pass.state.yearFrom)
       /\ IsNum(output.pass.state.yearTo)
       /\ d[1] <= Val(output.pass.state.yearFrom)
       /\ Val(output.pass.state.yearFrom) <= Val(output.pass.state.yearTo)
       /\ Val(output.pass.state.yearTo) <= d[2]

\* C10 witness: a pass that does not raise, entered with an inverted year
\* range whose ends lie outside the year domain
C10_Witness ==
  /\ output # Null
  /\ output.stage = "derived"
  /\ ~output.pass.raised
  /\ output.st.yearFrom = Num(2022)
  /\ output.st.yearTo = Num(1999)
  /\ output.pass.derived.options.yearDomain = <<2020, 2021>>
  /\ output.pass.state.yearFrom = Num(2020)
  /\ output.pass.state.yearTo = Num(2021)

\* the last frame ran a derivation pass that published options, and no user
\* event came after it
PassDone == burst = 0 /\ renderPhase \in {"done", "renderNoData"}

\* the same view, aggregates and graph
SamePublished(a, b) ==
  a.view = b.view /\ a.aggregates = b.aggregates /\ a.graph = b.graph

\* C4: a pass run with an empty enabledSourceIds (enabledTypes) publishes the
\* same view, aggregates and graph as the pass in which the set lists every
\* loaded source id (every type of the universe)
C4_EmptyMeansAll ==
  PassDone =>
    /\ state.enabledSourceIds = {} =>
         SamePublished(derived,
           computeDerived(raw, [state EXCEPT !.enabledSourceIds = LoadedIds],
                          derived).derived)
    /\ (state.enabledTypes.isSet /\ state.enabledTypes.elems = {}) =>
         SamePublished(derived,
           computeDerived(raw,
             [state EXCEPT !.enabledTypes =
                SetOf(Range(derived.options.universe.types))],
             derived).derived)

\* C5: after a pass, a category in disabledCats is not among the categories
\* of the view, is not a key of totalsByCat, and is still in the category
\* universe of the options
C5_DisabledCategoryFiltered ==
  (PassDone /\ derived.view # Null) =>
    \A c \in state.disabledCats :
      /\ c \notin Range(derived.view.cats)
      /\ c \notin MapKeys(derived.aggregates.totalsByCat)
      /\ c \in Range(derived.options.universe.cats)

\* C11: after a pass that reaches the category selection, disabledCats is
\* what it was before the pass cut down to the category universe: every
\* member is in the universe, and a member of the universe stays whether or
\* not the current window and selection show it
C11_DisabledClampedToUniverse ==
  (output # Null /\ output.stage = "derived" /\ ~output.pass.raised
     /\ output.pass.derived.view # Null) =>
    /\ output.pass.state.disabledCats \subseteq
         Range(output.pass.derived.options.universe.cats)
    /\ \A c \in output.st.disabledCats :
         c \in Range(output.pass.derived.options.universe.cats)
           => c \in output.pass.state.disabledCats

\* C11 witness: a pass that drops a disabled category outside the universe
\* and keeps one of the universe that the year window does not show
C11_Witness ==
  /\ output # Null
  /\ output.stage = "derived"
  /\ ~output.pass.raised
  /\ output.pass.derived.view # Null
  /\ output.st.disabledCats = {CatB, CatZ}
  /\ output.pass.state.disabledCats = {CatB}
  /\ CatB \notin Range(output.pass.derived.options.inRange.cats)
  /\ \A i \in 1..Len(output.pass.derived.view.bars) :
       output.pass.derived.view.bars[i].cat # CatB

\* the pass over the same sources and the same state with every type enabled
\* and no category disabled
passAllShown ==
  computeDerived(output.models,
                 [output.st EXCEPT !.enabledTypes = NullSet, !.disabledCats = {}],
                 NoDerived)

\* the two passes both publish options with a windowed universe
bothPublished ==
  /\ output # Null
  /\ output.stage = "derived"
  /\ ~output.pass.raised
  /\ ~passAllShown.raised

\* C12: two passes that differ only in enabledTypes and disabledCats publish
\* the same inRange.types and the same inRange.cats
C12_InRangeIndependentOfFilters ==
  bothPublished =>
    /\ output.pass.derived.options.inRange.types
         = passAllShown.derived.options.inRange.types
    /\ output.pass.derived.options.inRange.cats
         = passAllShown.derived.options.inRange.cats

\* the part of C12 about inRange.types alone
C12_InRangeTypesOnly ==
  bothPublished =>
    output.pass.derived.options.inRange.types
      = passAllShown.derived.options.inRange.types

\* the ids of the loaded sources
modelSourceIds == {output.models[i].sid : i \in 1..Len(output.models)}

\* the enabled-source set is not empty and names none of the loaded sources
noSourceMatches ==
  /\ output # Null
  /\ output.stage = "derived"
  /\ output.st.enabledSourceIds # {}
  /\ output.st.enabledSourceIds \cap modelSourceIds = {}

\* the pass published the empty Derived View: options, and no view, no graph
\* and no aggregates
emptyViewPublished ==
  /\ ~output.pass.raised
  /\ output.pass.derived.options # Null
  /\ output.pass.derived.options.sources = [i \in 1..Len(output.models) |->
                                              output.models[i].sid]
  /\ output.pass.derived.view = Null
  /\ output.pass.derived.graph = Null
  /\ output.pass.derived.aggregates = Null

\* the model of all loaded sources has a year domain
baseHasYears ==
  getYearDomain(mergeIfNeeded([i \in 1..Len(output.models) |->
                                 output.models[i].model])) # Null

\* C13 as stated: whenever the enabled-source set matches no loaded source,
\* the pass does not raise and publishes the empty Derived View
C13_EmptySelectionAlways == noSourceMatches => emptyViewPublished

\* C13: when the enabled-source set matches no loaded source and the loaded
\* sources have a year domain, the pass does not raise and publishes the
\* options with no view, no graph and no aggregates
C13_EmptySelectionNoError == (noSourceMatches /\ baseHasYears) => emptyViewPublished

\* C13 witness: a pass over one dated source A with only source B enabled
C13_Witness ==
  /\ noSourceMatches
  /\ baseHasYears
  /\ modelSourceIds = {SrcA}
  /\ output.st.enabledSourceIds = {SrcB}
  /\ output.pass.derived.options.yearDomain = <<2020, 2021>>
  /\ output.pass.derived.view = Null

\* Derived Views a pass can find published when it starts: the all-null view
\* of an empty load, and the view of one dated source
PublishedBefore ==
  << NullDerived,
    computeDerived(modelsOf(<<[sid |-> SrcA,
                               lines |-> <<Line(CatA, TypC, ToStr(2020), <<"1", "0", "0">>,
                                                <<"2">>, <<>>)>>]>>),
                   ModelState(Null, Null, "kosten", {}, NullSet, {}), NoDerived).derived >>

\* C14: a pass that raises leaves the published Derived View as it found it,
\* whatever was published before; nothing partly built is published
C14_RaiseKeepsPublished ==
  (output # Null /\ output.stage = "derived" /\ output.pass.raised) =>
    \A k \in 1..Len(PublishedBefore) :
         /\ computeDerived(output.models, output.st, PublishedBefore[k]).raised
         /\ computeDerived(output.models, output.st, PublishedBefore[k]).derived
              = PublishedBefore[k]

\* C14 witness: a pass over sources without any dated bar has raised, and a
\* complete view published before it is among the views it would keep
C14_Witness ==
  /\ output # Null
  /\ output.stage = "derived"
  /\ output.pass.raised
  /\ ~baseHasYears
  /\ output.pass.derived = NoDerived
  /\ PublishedBefore[2].view # Null
  /\ PublishedBefore[2].view.bars # <<>>
  /\ PublishedBefore[2].graph # Null

\* the pass run once more on the same sources, from the filter state and the
\* Derived View the first pass left
secondPass == computeDerived(output.models, output.pass.state, output.pass.derived)

\* C15: a second pass right after a pass that published, with the same
\* sources and no user change, publishes an equal Derived View (options,
\* view, aggregates, graph) and leaves the filter state as the first left it
C15_DerivationIdempotent ==
  (output # Null /\ output.stage = "derived" /\ ~output.pass.raised) =>
    /\ ~secondPass.raised
    /\ secondPass.derived = output.pass.derived
    /\ secondPass.state = output.pass.state

\* C15 witness: a first pass that changed the filter state (year range
\* repaired, a disabled category dropped) and published a view with bars
C15_Witness ==
  /\ output # Null
  /\ output.stage = "derived"
  /\ ~output.pass.raised
  /\ output.pass.state # output.st
  /\ output.st.disabledCats = {CatB, CatZ}
  /\ output.pass.derived.view # Null
  /\ output.pass.derived.view.bars # <<>>
  /\ output.pass.derived.aggregates.hasAny
  /\ secondPass.derived.graph = output.pass.derived.graph

\* the bars of the loaded sources, as <<source index, bar index>>
allBars ==
  UNION {{<<i, j>> : j \in 1..Len(output.models[i].model.bars)} :
           i \in 1..Len(output.models)}
barAt(x) == output.models[x[1]].model.bars[x[2]]
sidAt(x) == Trim(output.models[x[1]].sid)

\* the signed amount of a bar in the mode of the pass
signedAmount(x) ==
  IF output.pass.state.mode = "menge" THEN barAt(x).menge ELSE barAt(x).kosten

RECURSIVE SignedSum(_)
SignedSum(S) ==
  IF S = {} THEN 0
  ELSE LET x == CHOOSE y \in S : TRUE IN signedAmount(x) + SignedSum(S \ {x})

\* w is the absolute value of the signed sum of some of the bars of B
absOfSignedSum(w, B) == \E S \in SUBSET B : w = Abs(SignedSum(S))

\* the pass has published a graph
graphPublished ==
  /\ output # Null
  /\ output.stage = "derived"
  /\ ~output.pass.raised
  /\ output.pass.derived.graph # Null

\* C16: the weight of every actual edge is the absolute value of the signed
\* sum of the bars of its pair that the filters let through, so that it is
\* the absolute value of the signed sum of some set of bars of that pair
C16_EdgeWeightIsAbsOfSignedSum ==
  graphPublished =>
    LET g == output.pass.derived.graph
    IN /\ \A k \in 1..Len(g.sourceTypeWeight) :
            absOfSignedSum(g.sourceTypeWeight[k].val,
              {x \in allBars :
                 KeyG(sidAt(x), cleanKey(barAt(x).type)) = g.sourceTypeWeight[k].key})
       /\ \A k \in 1..Len(g.typeCatWeight) :
            absOfSignedSum(g.typeCatWeight[k].val,
              {x \in allBars :
                 KeyG(cleanKey(barAt(x).type), barAt(x).cat) = g.typeCatWeight[k].key})
       /\ \A k \in 1..Len(g.sourceCatWeight) :
            absOfSignedSum(g.sourceCatWeight[k].val,
              {x \in allBars :
                 KeyG(sidAt(x), barAt(x).cat) = g.sourceCatWeight[k].key})

RECURSIVE AbsSum(_)
AbsSum(S) ==
  IF S = {} THEN 0
  ELSE LET x == CHOOSE y \in S : TRUE IN Abs(signedAmount(x)) + AbsSum(S \ {x})

RECURSIVE SumVals(_)
SumVals(map) == IF map = <<>> THEN 0 ELSE Head(map).val + SumVals(Tail(map))

\* the source-category edges of source s
edgesOfSource(s) ==
  LET g == output.pass.derived.graph.sourceCatWeight
  IN SelectSeq(g, LAMBDA e : \E x \in allBars : e.key = KeyG(s, barAt(x).cat))

\* for every loaded source one set of its bars is behind both its total in
\* the aggregates (their signed sum) and its actual edges (their weights)
edgesMatchTotals ==
  \A s \in {sidAt(x) : x \in allBars} :
    \E S \in SUBSET {x \in allBars : sidAt(x) = s} :
      /\ MapGet(output.pass.derived.aggregates.totalsBySource, s) = SignedSum(S)
      /\ SumVals(edgesOfSource(s)) = AbsSum(S)

\* C17: the actual edges are built from the bars that the aggregates count:
\* the bars that add weight to the edges of a source are the bars that add
\* to its total, an undated actual bar included
C17_EdgesFromAggregatedBars == graphPublished => edgesMatchTotals

\* the part of C17 without undated bars, for categories and types that do
\* not hold the separator of the bar keys
C17_DatedBarsOnly ==
  (graphPublished
     /\ \A x \in allBars : /\ barAt(x).year # Null
                            /\ barAt(x).cat # CatSepL
                            /\ barAt(x).type # TypSepR) => edgesMatchTotals

\* the sources and the types a pass takes as enabled, and the categories it
\* leaves disabled
passSources == enabledSourcesOf(output.pass.state, output.pass.derived.options)
passTypes == enabledTypesOf(output.pass.state, output.pass.derived.options)
passDisabled == output.pass.state.disabledCats

\* every category text an edge can name: those of the bars, of the universe
\* and of the split planned keys
edgeCats ==
  {barAt(x).cat : x \in allBars}
    \cup Range(output.pass.derived.options.universe.cats)
    \cup {CatA, CatB, CatZ, CatSepL}

\* every key of the Map joins an element of L with an element of R
keysWithin(map, L, R) == MapKeys(map) \subseteq {KeyG(l, r) : l \in L, r \in R}

\* C18: every edge of the graph, actual or planned, joins enabled sources,
\* enabled types and categories that are not disabled
C18_EdgeEndpointsEnabled ==
  graphPublished =>
    LET g == output.pass.derived.graph
        cats == edgeCats \ passDisabled
    IN /\ keysWithin(g.sourceTypeWeight, passSources, passTypes)
       /\ keysWithin(g.typeCatWeight, passTypes, cats)
       /\ keysWithin(g.sourceCatWeight, passSources, cats)
       /\ keysWithin(g.sourceTypePlanned, passSources, passTypes)
       /\ keysWithin(g.typeCatPlanned, passTypes, cats)
       /\ keysWithin(g.sourceCatPlanned, passSources, cats)

\* C18 witness: a graph with actual and planned edges under a selection of
\* one source and one type with category b disabled, where a planned
\* relation of type c with b is in the model and has no edge
C18_Witness ==
  /\ graphPublished
  /\ output.st.enabledSourceIds = {SrcA}
  /\ output.st.enabledTypes = SetOf({TypC})
  /\ passDisabled = {CatB}
  /\ Key2(TypC, CatB) \in Range(output.models[1].model.plannedTypeCat)
  /\ output.pass.derived.graph.sourceTypeWeight # <<>>
  /\ output.pass.derived.graph.sourceTypePlanned # <<>>
  /\ KeyG(TypC, CatB) \notin MapKeys(output.pass.derived.graph.typeCatPlanned)

\* the merge has run over exactly one per-source model
singletonMerged ==
  /\ output # Null
  /\ output.stage \in {"merged", "derived"}
  /\ Len(output.models) = 1

\* C19: the merge of exactly one per-source model has that model's bars
\* (same year keys, categories, types, cost and quantity), years, categories
\* and types
C19_MergeSingletonIdentity ==
  singletonMerged =>
    /\ output.merged.bars = output.models[1].model.bars
    /\ output.merged.years = output.models[1].model.years
    /\ output.merged.cats = output.models[1].model.cats
    /\ output.merged.types = output.models[1].model.types

\* C19 witness: the merge of one model with a dated and an undated bar, two
\* categories and two types
C19_Witness ==
  /\ singletonMerged
  /\ Len(output.merged.bars) = 2
  /\ \E i \in 1..2 : output.merged.bars[i].year = Null
  /\ \E i \in 1..2 : output.merged.bars[i].kosten < 0
  /\ Len(output.merged.cats) = 2
  /\ Len(output.merged.types) = 2
  /\ output.merged.years = <<2021>>

\* the lists of all loaded models one after the other
RECURSIVE catsInOrder(_)
catsInOrder(entries) ==
  IF entries = <<>> THEN <<>>
  ELSE Head(entries).model.cats \o catsInOrder(Tail(entries))

RECURSIVE typesInOrder(_)
typesInOrder(entries) ==
  IF entries = <<>> THEN <<>>
  ELSE Head(entries).model.types \o typesInOrder(Tail(entries))

\* the elements of a list in the order of their first occurrence
RECURSIVE firstSeen(_)
firstSeen(s) ==
  IF s = <<>> THEN <<>>
  ELSE <<Head(s)>> \o firstSeen(SelectSeq(Tail(s), LAMBDA x : x # Head(s)))

\* the merge has run over the loaded models
modelsMerged == output # Null /\ output.stage \in {"merged", "derived"}

\* C20: categories and types of a merged model are the union of the inputs'
\* lists in first-seen order across the input sequence, not sorted again
C20_FirstSeenOrder ==
  modelsMerged =>
    /\ output.merged.cats = firstSeen(catsInOrder(output.models))
    /\ output.merged.types = firstSeen(typesInOrder(output.models))

\* the part of C20 about the categories alone
C20_CatsFirstSeen ==
  modelsMerged => output.merged.cats = firstSeen(catsInOrder(output.models))

\* the merge of the loaded models taken in the reverse order
mergedReversed ==
  mergeModels([i \in 1..Len(output.models) |->
                 output.models[Len(output.models) + 1 - i].model])

\* two merged models have the same members: years, categories, types,
\* planned relations, and bars with their keys, cost and quantity
sameMembers(a, b) ==
  /\ Range(a.years) = Range(b.years)
  /\ Range(a.cats) = Range(b.cats)
  /\ Range(a.types) = Range(b.types)
  /\ Range(a.plannedSourceCat) = Range(b.plannedSourceCat)
  /\ Range(a.plannedSourceType) = Range(b.plannedSourceType)
  /\ Range(a.plannedTypeCat) = Range(b.plannedTypeCat)
  /\ Range(a.bars) = Range(b.bars)

\* C21: the merge of the models in another order has the same years,
\* categories, types, planned relations and bars (keys, cost, quantity)
C21_MergeOrderMembership ==
  (modelsMerged /\ Len(output.models) = 2) => sameMembers(output.merged, mergedReversed)

\* C21 for categories and types that do not hold the separator of the bar keys
C21_WithoutSeparator ==
  (modelsMerged /\ Len(output.models) = 2
     /\ \A x \in allBars : barAt(x).cat # CatSepL /\ barAt(x).type # TypSepR)
    => sameMembers(output.merged, mergedReversed)

\* the frame runs a derivation pass in this step
passRuns == flags.redrawScheduled /\ flags.ready /\ ~flags.redrawInFlight

\* the sources the pass of this step selects
selectedNow ==
  SelectEntries(raw, IF state.enabledSourceIds # {} THEN state.enabledSourceIds
                     ELSE {raw[i].sid : i \in 1..Len(raw)})

\* an earlier pass over the same loaded sources has merged the selection that
\* the pass of this step selects: its graph lists the same sources
mergedBefore ==
  /\ renderPhase = "done"
  /\ derived.graph.sources = [i \in 1..Len(selectedNow) |-> selectedNow[i].sid]

\* C22: a pass that finds the merge of its selection done by an earlier pass
\* on the same load does not invoke the merge again
C22_MergeOncePerSelection ==
  [][(passRuns /\ RafCallback /\ mergedBefore) => mergeCalls(raw, state) = 0]_vars

\* the chartable records of the lines of source i: validly dated or undated
chartableOf(i) == SelectChartable(parseRows(input[i].lines))

\* the models of the loaded sources are built
modelsBuilt == output # Null /\ output.stage \in {"built", "merged", "derived"}

\* C23: the categories and types of a per-source model are exactly those of
\* its chartable records; a record that is neither validly dated nor undated
\* adds none
C23_UniversesFromChartable ==
  modelsBuilt =>
    \A i \in 1..Len(output.models) :
      /\ Range(output.models[i].model.cats)
           = {cleanKey(chartableOf(i)[k].cat) : k \in 1..Len(chartableOf(i))}
      /\ Range(output.models[i].model.types)
           = {cleanKey(chartableOf(i)[k].typ) : k \in 1..Len(chartableOf(i))}

\* C23 for sources whose records are all chartable
C23_AllChartable ==
  (modelsBuilt /\ \A i \in 1..Len(input) :
                    Len(chartableOf(i)) = Len(parseRows(input[i].lines)))
    => \A i \in 1..Len(output.models) :
         /\ Range(output.models[i].model.cats)
              = {cleanKey(chartableOf(i)[k].cat) : k \in 1..Len(chartableOf(i))}
         /\ Range(output.models[i].model.types)
              = {cleanKey(chartableOf(i)[k].typ) : k \in 1..Len(chartableOf(i))}

\* an amount cell with every decimal comma written as a decimal point
CommaToPoint(cell) == [i \in 1..Len(cell) |-> IF cell[i] = "," THEN "." ELSE cell[i]]

\* an amount cell with every Unicode minus and en-dash written as "-"
PlainMinus(cell) ==
  [i \in 1..Len(cell) |-> IF cell[i] \in {UMINUS, ENDASH} THEN "-" ELSE cell[i]]

\* the amounts of the parsed rows of the lines, in tenths
kostenOf(lines) == [k \in 1..Len(parseRows(lines)) |-> parseRows(lines)[k].kosten]

\* the rows are parsed
rowsParsed == output = parseRows(input) /\ output # Null

\* C24: an amount cell with a decimal comma gives the number of the same cell
\* with a decimal point, and a leading Unicode minus or en-dash reads as "-"
C24_CommaPeriodTolerant ==
  rowsParsed =>
    /\ [k \in 1..Len(output) |-> output[k].kosten]
         = kostenOf([i \in 1..Len(input) |->
                       [input[i] EXCEPT !.Betrag = CommaToPoint(@)]])
    /\ [k \in 1..Len(output) |-> output[k].kosten]
         = kostenOf([i \in 1..Len(input) |->
                       [input[i] EXCEPT !.Betrag = PlainMinus(@)]])

\* the part of C24 about the minus signs
C24_MinusVariants ==
  rowsParsed =>
    [k \in 1..Len(output) |-> output[k].kosten]
      = kostenOf([i \in 1..Len(input) |-> [input[i] EXCEPT !.Betrag = PlainMinus(@)]])

\* the amount cell of the line parses to a finite number
amountParses(l) == IsNum(parseNumberStrict(cleanText(l.Betrag)))

\* the lines without those whose amount does not parse
RECURSIVE parsableLines(_)
parsableLines(lines) ==
  IF lines = <<>> THEN <<>>
  ELSE IF amountParses(Head(lines))
       THEN <<Head(lines)>> \o parsableLines(Tail(lines))
       ELSE parsableLines(Tail(lines))

\* C25: a row whose amount does not parse raises nothing and adds nothing:
\* the model of a source is the model of the same lines without such rows
\* (years, categories, types, bars, units, planned relations, details)
C25_BadAmountRowSkipped ==
  modelsBuilt =>
    \A i \in 1..Len(output.models) :
      /\ ~output.models[i].model.error
      /\ output.models[i].model
           = buildModel(parsableLines(input[i].lines), input[i].sid)

\* C25 witness: a source built from a row with the amount "x" and a row that
\* parses; the category of the first row is not in the model
C25_Witness ==
  /\ modelsBuilt
  /\ Len(input) = 1
  /\ Len(input[1].lines) = 2
  /\ ~amountParses(input[1].lines[1])
  /\ input[1].lines[1].Kategorie = CatN
  /\ amountParses(input[1].lines[2])
  /\ output.models[1].model.cats = <<CatA>>
  /\ Len(output.models[1].model.bars) = 1

\* C26: loadData resolves, and the application gets ready and derives, only
\* with every configured source loaded; after a source has failed it never
\* resolves
C26_NoSourceDropped ==
  /\ flags.ready => (LoadedIds = ConfigIds /\ ~flags.bootFailed)
  /\ renderPhase # "none" => flags.ready

\* C26 witness: the second source failed after the first was loaded; the
\* load did not resolve
C26_Witness ==
  /\ config = DataBroken
  /\ flags.bootFailed
  /\ LoadedIds = {SrcA}
  /\ ~flags.ready
  /\ renderPhase = "none"

\* C27: at most one redraw(ctx) is executing and at most one animation-frame
\* callback is pending, whatever the order of calls, frames and completions
C27_RedrawsNeverOverlap ==
  /\ output.running <= 1
  /\ output.frames <= 1
  /\ output.running = (IF flags.redrawInFlight THEN 1 ELSE 0)
  /\ output.frames = (IF flags.redrawScheduled THEN 1 ELSE 0)

\* C27 witness: while a redraw is executing, a further call has a frame
\* callback pending
C27_Witness ==
  /\ output.running = 1
  /\ output.frames = 1
  /\ "inFlight" \in input.during

\* C28: every requestRedraw call is eventually followed by the start of a
\* redraw, and no redraw starts during boot
C28_NoRequestLost ==
  /\ \A n \in 1..MaxCalls : (input.calls = n) ~> (output.served >= n)
  /\ [](~flags.ready => (output.running = 0 /\ output.served = 0
                           /\ renderPhase = "none"))

\* C28 witness: calls were made during boot, with a frame scheduled and
\* with a redraw in flight, and a redraw has started after the last of them
C28_Witness ==
  /\ {"boot", "scheduled", "inFlight"} \subseteq input.during
  /\ input.calls = MaxCalls
  /\ output.served = MaxCalls

\* the sources toggle applied to the filter state as it is now
sourceToggled(st, id, checked) ==
  LET cur0 == IF st.enabledSourceIds = {} THEN ConfigIds ELSE st.enabledSourceIds
      cur == IF checked THEN cur0 \cup {id} ELSE cur0 \ {id}
  IN IF cur = {} THEN st.enabledSourceIds
     ELSE IF cur = ConfigIds THEN {} ELSE cur

\* the types toggle applied to the filter state as it is now
typeToggled(st, t, checked) ==
  LET cur0 == IF st.enabledTypes.elems = {} THEN Range(dom.typeValues)
              ELSE st.enabledTypes.elems
      cur == IF checked THEN cur0 \cup {t} ELSE cur0 \ {t}
  IN SetOf(IF Cardinality(cur) = Len(dom.typeValues) THEN {} ELSE cur)

\* C29: every toggle of a sources or types check box is applied to the
\* current enabledSourceIds and enabledTypes, with or without a redraw since
\* the toggle before
C29_TogglesApplyToCurrent ==
  [][/\ \A id \in ConfigIds, checked \in BOOLEAN :
          ToggleSource(id, checked) =>
            state'.enabledSourceIds = sourceToggled(state, id, checked)
     /\ \A t \in Range(dom.typeValues), checked \in BOOLEAN :
          ToggleType(t, checked) =>
            state'.enabledTypes = typeToggled(state, t, checked)]_vars

\* C29, toggles after a redraw only: the first toggle since the latest redraw
\* is applied to the current filter state
C29_FirstToggleAfterRedraw ==
  [][burst = 0 =>
       /\ \A id \in ConfigIds, checked \in BOOLEAN :
            ToggleSource(id, checked) =>
              state'.enabledSourceIds = sourceToggled(state, id, checked)
       /\ \A t \in Range(dom.typeValues), checked \in BOOLEAN :
            ToggleType(t, checked) =>
              state'.enabledTypes = typeToggled(state, t, checked)]_vars

\* the (yearKey, category, type) triples of the actual rows of source i
rowTriples(i) ==
  {<<AmountRows(input[i].lines)[k].yearKey, AmountRows(input[i].lines)[k].cat,
     AmountRows(input[i].lines)[k].type>> :
     k \in 1..Len(AmountRows(input[i].lines))}

\* the (yearKey, category, type) triples of the bars of the model of source i
barTriples(i) ==
  {<<output.models[i].model.bars[k].yearKey, output.models[i].model.bars[k].cat,
     output.models[i].model.bars[k].type>> :
     k \in 1..Len(output.models[i].model.bars)}

\* a planned-relation key of every parsed row decodes to the pair it is
\* made of
keysDecode(i) ==
  \A r \in Range(parseRows(input[i].lines)) :
     /\ SplitPair(Key2(r.typ, r.cat)) = <<r.typ, r.cat>>
     /\ SplitPair(Key2(input[i].sid, r.cat)) = <<input[i].sid, r.cat>>
     /\ SplitPair(Key2(input[i].sid, r.typ)) = <<input[i].sid, r.typ>>

hasSeparator(t) == FirstSep(t) # 0

\* C30: actual rows are accumulated into the same bar only if they agree in
\* yearKey, category and type, so a model has one bar per triple of its
\* actual rows, and every planned-relation key decodes to its pair
C30_KeysInjective ==
  modelsBuilt =>
    \A i \in 1..Len(input) :
       /\ barTriples(i) = rowTriples(i)
       /\ keysDecode(i)

\* C30 for categories and types without the separator
C30_WithoutSeparator ==
  modelsBuilt =>
    \A i \in 1..Len(input) :
       (\A r \in Range(parseRows(input[i].lines)) :
           ~hasSeparator(r.cat) /\ ~hasSeparator(r.typ))
         => (barTriples(i) = rowTriples(i) /\ keysDecode(i))

====
